---- MODULE Spec2Model ----
(***************************************************************************)
(* A model of the CDC camper bot: the account orchestrator                 *)
(* (src/src/utils/account_manager.py), the login and page-open workflows   *)
(* and the slot diff engine (src/src/website_handler.py) and the           *)
(* per-category session state (src/abstracts/cdc_abstract.py).             *)
(*                                                                         *)
(* The module holds several specifications over one set of variables:     *)
(*   Spec, SpecAccount, SpecNotify, SpecSetup, SpecStagger, SpecLog,       *)
(*   SpecShutdown   one AccountManager running passes of run_all_accounts  *)
(*   SpecLogin      one handler: account_login / account_logout            *)
(*   SpecPage, SpecTest, SpecOverview   one handler: the page opens        *)
(*   SpecSession, SpecDashboard   one handler's per-category attributes    *)
(*   SpecDiff, SpecEarliest   the pure functions of the diff engine        *)
(*   SpecEvaluate, SpecPoll   the booking decision of a category           *)
(*   SpecDiscord    the notification dispatch                              *)
(* Each specification leaves the variables of the others unchanged.        *)
(***************************************************************************)
EXTENDS Integers, Sequences, FiniteSets, TLC

(***************************************************************************)
(* Bounds of the model.                                                    *)
(***************************************************************************)
NumAccounts == 2
MaxUrlDigits == 2
MaxSlots == 2
MaxFailures == 10
MaxWrites == 3
MaxEntries == 3
MaxPolls == 3

\* posts counted
MaxPosts == 4

\* rows of a table of the dashboard
MaxRows == 2

\* the clock: seconds a step of the clock takes, and where it stops
TickSeconds == 15
MaxTime == 60

\* sys.getrecursionlimit(), counted in frames of _send_to_webhook
RecursionLimit == 3

(***************************************************************************)
(* Program constants.                                                      *)
(***************************************************************************)
DriverMaxRetries == 3
DefaultMaxLoginAttempts == 3
CallDepthCeiling == 4
stagger_seconds == 30

Accounts == 1..NumAccounts

VARIABLES
    \* ---- AccountManager: configuration (immutable after load) ----
    enabled,                  \* account["enabled"], per account
    name,                     \* account["name"], per account
    has_credentials,          \* account has a username and a password
    max_concurrent_accounts,  \* program_config["max_concurrent_accounts"]
    discord_notification_enabled, \* discord_config["discord_notification_enabled"]
    \* ---- AccountManager: run_all_accounts ----
    orchPc,                   \* position of the main thread
    submitted,                \* how many of enabled_accounts were submitted
    max_workers,              \* pool size of this pass
    running_accounts,         \* self.running_accounts (a set of names)
    unhandledLogged,          \* accounts whose exception future.result() re-raised
    sweptCleared,             \* names the sweep called clear_account_temp_dir for
    sweptFailed,              \* names for which that call raised
    \* ---- one worker (future) per account ----
    pc,                       \* position of the account's worker
    exc,                      \* the future of the account holds an exception
    entered,                  \* times run_account went past its enabled check
    drivers,                  \* browser drivers created and not yet quit
    h_logged_in,              \* cdc_handler.logged_in of the account's handler
    notified,                 \* titles run_account sent for the account
    \* ---- time.sleep and the clock (SpecStagger) ----
    now,                      \* seconds since the pass began
    wake,                     \* when the time.sleep of the worker is over
    \* ---- the process: SIGINT / SIGTERM (SpecShutdown) ----
    atSignal,                 \* where each worker was when the signal came
    \* ---- handler: account_login / account_logout (SpecLogin) ----
    logged_in,                \* self.logged_in
    port,                     \* self.port
    current_url,              \* self.driver.current_url, as account_login reads it
    loginPc,                  \* position inside account_login
    max_login_attempts,       \* argument of account_login
    current_attempt,          \* argument of account_login
    attempts,                 \* login sequences begun by the present call
    loginResult,              \* what the last call of account_login returned
    \* ---- handler: open_practical_lessons_booking_page (SpecPage) ----
    pagePc,                   \* position inside the page open
    call_depth,               \* argument call_depth of the present invocation
    failures,                 \* consecutive failed page opens of this phase
    relogins,                 \* forced logout / login pairs of this phase
    escalated,                \* check_call_depth of this invocation returned False
    pageResult,               \* what the page open returned
    \* ---- CDCAbstract: per-category attributes (SpecSession) ----
    attrs,                    \* <attribute>_<field_type>, per field type
    flags,                    \* can_book_next_*, has_auto_reserved_practical,
                              \* has_slots_reserved
    notification_update_msg,  \* handler.notification_update_msg
    writes,                   \* calls of the attribute setters so far
    lastOp,                   \* the last operation applied to the attributes
    \* ---- diff engine (SpecDiff) ----
    session0,                 \* first argument
    session1,                 \* second argument
    diffResult,               \* the value returned
    \* ---- handler: get_earliest_time_slots (SpecEarliest) ----
    sessions_data,            \* argument: the dict, as its items() in order
    length,                   \* argument of the first call
    length2,                  \* argument length of the call on the result
    earlPc,                   \* calls made so far
    first,                    \* outcome of get_earliest_time_slots(c, length)
    second,                   \* outcome of the call on the first result
    \* ---- booking decision workflow of a category (SpecEvaluate, SpecPoll) ----
    evalPc,                   \* position in the evaluation of the category
    evalType,                 \* the field type being evaluated
    earlier_before,           \* earlier_sessions of the previous evaluation
    emitted,                  \* notifications emitted during the present poll
    polls,                    \* poll cycles completed
    auto_reserve,             \* configuration: reserve instead of only notifying
    handled,                  \* how the present and the previous poll dealt
                              \* with their earlier slots
    \* ---- DiscordManager and Log (SpecDiscord) ----
    dm_enabled,               \* DiscordManager.enabled
    forward_logs,             \* Log sends warnings and errors to Discord
    stack,                    \* frames of send_notification / _send_to_webhook
    dResult,                  \* what the outermost call gave its caller
    posts,                    \* requests.post calls since the outermost call
    resends,                  \* posts the outermost frame made after a 429
    \* ---- handler: reading the dashboard (SpecDashboard) ----
    rows,                     \* the rows of the table read last
    \* ---- handler: open_booking_overview (SpecOverview) ----
    trail,                    \* what the present call has done so far
    \* ---- Log: the one Log object of the program (SpecLog) ----
    prefix                    \* Log.prefix: the account named in it, 0 for ""

loginVars == <<logged_in, port, current_url, loginPc, max_login_attempts,
               current_attempt, attempts, loginResult>>

pageVars == <<pagePc, call_depth, failures, relogins, escalated, pageResult>>

sessVars == <<attrs, flags, notification_update_msg, writes, lastOp>>

diffVars == <<session0, session1, diffResult>>

earlVars == <<sessions_data, length, length2, earlPc, first, second>>

workVars == <<evalPc, evalType, earlier_before, emitted, polls, auto_reserve,
              handled>>

clockVars == <<now, wake>>

discVars == <<dm_enabled, forward_logs, stack, dResult, posts, resends>>

dashVars == <<rows>>

ovVars == <<trail>>

logVars == <<prefix>>

handlerVars == <<loginVars, pageVars, sessVars, diffVars, earlVars, workVars,
                 discVars, dashVars, ovVars, logVars>>

orchVars == <<enabled, name, has_credentials, max_concurrent_accounts,
              discord_notification_enabled, notified, atSignal, now, wake,
              orchPc, submitted,
              max_workers, running_accounts, unhandledLogged, sweptCleared,
              sweptFailed, pc, exc, entered, drivers, h_logged_in>>

vars == <<orchVars, handlerVars>>

(***************************************************************************)
(* Data of the handler                                                     *)
(***************************************************************************)

\* what re.findall(r'\d+', url) can return: the digit groups of the URL
DigitGroups == {"443", "8080"}

DigitLists == UNION {[1..n -> DigitGroups] : n \in 0..MaxUrlDigits}

\* a URL, as far as account_login looks at it: whether it contains
\* "NewPortal", and its digit groups in order
Urls == [portal : BOOLEAN, digits : DigitLists]

NoUrl == [portal |-> FALSE, digits |-> <<>>]

\* handler.__init__: port = "", logged_in = False; no call of account_login
LoginIdle ==
    /\ logged_in = FALSE
    /\ port = ""
    /\ current_url = NoUrl
    /\ loginPc = "idle"
    /\ max_login_attempts = DefaultMaxLoginAttempts
    /\ current_attempt = 1
    /\ attempts = 0
    /\ loginResult = "none"

PageIdle ==
    /\ pagePc = "idle"
    /\ call_depth = 0
    /\ failures = 0
    /\ relogins = 0
    /\ escalated = FALSE
    /\ pageResult = "none"

\* Types
FieldTypes == {"practical", "pt"}

\* attribute_templates, by type constructor
ListAttributes == {"days_in_view", "times_in_view"}

DictAttributes == {"web_elements_in_view", "available_sessions",
                   "reserved_sessions", "booked_sessions", "earlier_sessions",
                   "cached_earlier_sessions"}

StrAttributes == {"lesson_name"}

Attributes == ListAttributes \cup DictAttributes \cup StrAttributes

\* attribute_template[1](): list() and dict() are the empty sequence and the
\* empty mapping, str() the empty string
ZeroValue(attribute) == IF attribute \in StrAttributes THEN "" ELSE <<>>

\* the names of the flags
FlagNames == {"can_book_next_practical", "has_auto_reserved_practical",
              "can_book_next_pt", "has_slots_reserved"}

\* CDCAbstract.__init__ and handler.__init__: the flags as created
InitialFlags ==
    [f \in FlagNames |-> f \in {"can_book_next_practical", "can_book_next_pt"}]

\* CDCAbstract.__init__: every attribute of every field type as created
InitialAttrs ==
    [ft \in FieldTypes |-> [at \in Attributes |-> ZeroValue(at)]]

SessionFresh ==
    /\ attrs = InitialAttrs
    /\ flags = InitialFlags
    /\ notification_update_msg = ""
    /\ writes = 0
    /\ lastOp = [op |-> "__init__", field_type |-> "", dirty |-> FALSE]

\* dates and time-range labels as the booking pages show them
Dates == {"12/May/2025", "15/May/2025"}

TimeSlots == {"09:00 - 10:00", "11:00 - 12:00"}

SlotLists == UNION {[1..n -> TimeSlots] : n \in 0..MaxSlots}

\* a sessions dict: date -> list of time-range labels
Sessions == UNION {[D -> SlotLists] : D \in SUBSET Dates}

DiffIdle ==
    /\ session0 = <<>>
    /\ session1 = <<>>
    /\ diffResult = [op |-> "none", value |-> FALSE]

\* what a call that has not been made has returned
NoOutcome == [raised |-> FALSE, value |-> <<>>]

EarliestIdle ==
    /\ sessions_data = <<>>
    /\ length = 0
    /\ length2 = 0
    /\ earlPc = "idle"
    /\ first = NoOutcome
    /\ second = NoOutcome

\* no poll has dealt with any slots
NotHandled == [present |-> "none", previous |-> "none"]

WorkIdle ==
    /\ evalPc = "idle"
    /\ evalType = "practical"
    /\ earlier_before = <<>>
    /\ emitted = 0
    /\ polls = 0
    /\ auto_reserve = FALSE
    /\ handled = NotHandled

(***************************************************************************)
(* AccountManager                                                          *)
(***************************************************************************)

\* _parse_accounts: self.accounts, the accounts of the configuration that
\* have a username and a password
ValidAccounts == {a \in Accounts : has_credentials[a]}

\* run_all_accounts: enabled_accounts, in configuration order
EnabledAccounts == {a \in ValidAccounts : enabled[a]}

\* positions of a worker inside run_account, after the enabled check
RunPcs == {"setup", "construct", "login", "login_failed", "process",
           "process_error", "cleanup", "setup_error", "fin_check",
           "fin_remove"}

\* positions of a worker that occupies a pool thread
ThreadPcs == RunPcs \cup {"sleeping"}

\* positions of a worker whose future is complete
EndPcs == {"done", "collected"}

RunningWorkers == {a \in Accounts : pc[a] \in RunPcs}

BusyThreads == {a \in Accounts : pc[a] \in ThreadPcs}

MaxWorkersUnclamped(m, k) == IF m <= 0 THEN k ELSE m

\* run_all_accounts: the pool size
MaxWorkers(m, k) == IF m <= 0 \/ m > k THEN k ELSE m

\* initialize_driver: the outcomes of its retry loop. Each attempt either fails
\* in uc.Chrome (no driver), fails after uc.Chrome returned (the driver of the
\* attempt stays open), or returns the driver.
AttemptOutcomes == {"chrome_raises", "configure_raises", "returns"}

RECURSIVE InitializeDriver(_, _)
InitializeDriver(attempt, created) ==
    IF attempt >= DriverMaxRetries
    THEN {[ok |-> FALSE, created |-> created]}
    ELSE UNION {
        CASE o = "returns" -> {[ok |-> TRUE, created |-> created + 1]}
          [] o = "configure_raises" -> InitializeDriver(attempt + 1, created + 1)
          [] OTHER -> InitializeDriver(attempt + 1, created)
        : o \in AttemptOutcomes}

\* handler.__init__: the driver, then the FlareSolverr cookies; add_cookie
\* raising is re-raised out of the constructor
HandlerInit ==
    UNION {
        IF d.ok
        THEN {[ok |-> TRUE, created |-> d.created],
              [ok |-> FALSE, created |-> d.created]}
        ELSE {d}
        : d \in InitializeDriver(0, 0)}

\* _parse_accounts: every account gets a name, and nothing makes the names
\* distinct: either all differ, or the second account repeats the first name
NameChoices ==
    {[a \in Accounts |-> a], [a \in Accounts |-> IF a = 2 THEN 1 ELSE a]}

\* every account of the configuration has a username and a password
AllCredentials == [a \in Accounts |-> TRUE]

\* no worker is in time.sleep
NotAsleep == [a \in Accounts |-> 0]

\* no SIGINT or SIGTERM was delivered
NoSignal == [a \in Accounts |-> "none"]

\* AccountManager.__init__: nothing scheduled, nobody running
OrchIdle ==
    /\ orchPc = "idle"
    /\ submitted = 0
    /\ max_workers = 0
    /\ running_accounts = {}
    /\ unhandledLogged = {}
    /\ sweptCleared = {}
    /\ sweptFailed = {}
    /\ pc = [a \in Accounts |-> "unsubmitted"]
    /\ exc = [a \in Accounts |-> FALSE]
    /\ entered = [a \in Accounts |-> 0]
    /\ drivers = [a \in Accounts |-> 0]
    /\ h_logged_in = [a \in Accounts |-> FALSE]
    /\ notified = [a \in Accounts |-> {}]
    /\ atSignal = NoSignal
    /\ now = 0
    /\ wake = NotAsleep

\* no table of the dashboard was read
DashboardIdle == rows = <<>>

\* open_booking_overview was not called
OverviewIdle == trail = <<>>

\* Log.__init__: self.prefix = ""
LogIdle == prefix = 0

\* no notification is being dispatched
DiscordIdle ==
    /\ dm_enabled = TRUE
    /\ forward_logs = FALSE
    /\ stack = <<>>
    /\ dResult = "idle"
    /\ posts = 0
    /\ resends = 0

\* the configuration the handler specifications run under: it plays no part
\* in them
OneConfig ==
    /\ enabled = [a \in Accounts |-> TRUE]
    /\ name = [a \in Accounts |-> a]
    /\ has_credentials = AllCredentials
    /\ max_concurrent_accounts = 0
    /\ discord_notification_enabled = FALSE

Init ==
    /\ enabled \in [Accounts -> BOOLEAN]
    /\ name \in NameChoices
    /\ has_credentials = AllCredentials
    /\ max_concurrent_accounts \in -1..(NumAccounts + 1)
    /\ discord_notification_enabled = FALSE
    /\ OrchIdle
    /\ LoginIdle
    /\ PageIdle
    /\ SessionFresh
    /\ DiffIdle
    /\ EarliestIdle
    /\ WorkIdle
    /\ DiscordIdle
    /\ DashboardIdle
    /\ OverviewIdle
    /\ LogIdle

config == <<enabled, name, has_credentials, max_concurrent_accounts,
            discord_notification_enabled>>

RunAllAccountsNoEarlyReturn ==
    /\ orchPc \in {"idle", "returned"}
    /\ unhandledLogged' = {}
    /\ sweptCleared' = {}
    /\ sweptFailed' = {}
    /\ pc' = [a \in Accounts |-> "unsubmitted"]
    /\ exc' = [a \in Accounts |-> FALSE]
    /\ entered' = [a \in Accounts |-> 0]
    /\ drivers' = [a \in Accounts |-> 0]
    /\ h_logged_in' = [a \in Accounts |-> FALSE]
    /\ submitted' = 0
    /\ orchPc' = "submitting"
    /\ max_workers' = MaxWorkers(max_concurrent_accounts,
                                 Cardinality(EnabledAccounts))
    /\ notified' = [a \in Accounts |-> {}]
    /\ now' = 0
    /\ wake' = NotAsleep
    /\ UNCHANGED <<handlerVars, config, atSignal, running_accounts>>

\* run_all_accounts, up to the creation of the pool
RunAllAccounts ==
    /\ orchPc \in {"idle", "returned"}
    /\ unhandledLogged' = {}
    /\ sweptCleared' = {}
    /\ sweptFailed' = {}
    /\ pc' = [a \in Accounts |-> "unsubmitted"]
    /\ exc' = [a \in Accounts |-> FALSE]
    /\ entered' = [a \in Accounts |-> 0]
    /\ drivers' = [a \in Accounts |-> 0]
    /\ h_logged_in' = [a \in Accounts |-> FALSE]
    /\ submitted' = 0
    /\ IF EnabledAccounts = {}
       THEN /\ orchPc' = "returned"
            /\ max_workers' = 0
       ELSE /\ orchPc' = "submitting"
            /\ max_workers' = MaxWorkers(max_concurrent_accounts,
                                         Cardinality(EnabledAccounts))
    /\ notified' = [a \in Accounts |-> {}]
    /\ now' = 0
    /\ wake' = NotAsleep
    /\ UNCHANGED <<handlerVars, config, atSignal, running_accounts>>

\* the i-th enabled account, in list order
NextToSubmit ==
    CHOOSE a \in EnabledAccounts :
        Cardinality({b \in EnabledAccounts : b < a}) = submitted

\* run_all_accounts: executor.submit(self._delayed_account_start, account, delay)
Submit ==
    /\ orchPc = "submitting"
    /\ submitted < Cardinality(EnabledAccounts)
    /\ pc' = [pc EXCEPT ![NextToSubmit] = "queued"]
    /\ submitted' = submitted + 1
    /\ UNCHANGED <<handlerVars, config, clockVars, atSignal, notified, orchPc, max_workers, running_accounts,
                   unhandledLogged, sweptCleared, sweptFailed, exc, entered,
                   drivers, h_logged_in>>

\* run_all_accounts: the submit loop is over, as_completed starts
SubmitDone ==
    /\ orchPc = "submitting"
    /\ submitted = Cardinality(EnabledAccounts)
    /\ orchPc' = "waiting"
    /\ UNCHANGED <<handlerVars, config, clockVars, atSignal, notified, submitted, max_workers, running_accounts,
                   unhandledLogged, sweptCleared, sweptFailed, pc, exc,
                   entered, drivers, h_logged_in>>

\* ThreadPoolExecutor: a pool thread takes the oldest queued work item;
\* _delayed_account_start then sleeps out its delay on that thread
PoolPick(a) ==
    /\ pc[a] = "queued"
    /\ \A b \in Accounts : pc[b] = "queued" => a <= b
    /\ Cardinality(BusyThreads) < max_workers
    /\ pc' = [pc EXCEPT ![a] = "sleeping"]
    /\ UNCHANGED <<handlerVars, config, clockVars, atSignal, notified, orchPc, submitted, max_workers, running_accounts,
                   unhandledLogged, sweptCleared, sweptFailed, exc, entered,
                   drivers, h_logged_in>>

EnterRunAccountUnchecked(a) ==
    /\ pc[a] = "sleeping"
    /\ running_accounts' = running_accounts \cup {name[a]}
    /\ entered' = [entered EXCEPT ![a] = @ + 1]
    /\ pc' = [pc EXCEPT ![a] = "setup"]
    /\ UNCHANGED <<handlerVars, config, clockVars, atSignal, notified, orchPc, submitted, max_workers, unhandledLogged,
                   sweptCleared, sweptFailed, exc, drivers, h_logged_in>>

\* run_account: the enabled check and running_accounts.add
EnterRunAccount(a) ==
    /\ pc[a] = "sleeping"
    /\ IF enabled[a]
       THEN /\ running_accounts' = running_accounts \cup {name[a]}
            /\ entered' = [entered EXCEPT ![a] = @ + 1]
            /\ pc' = [pc EXCEPT ![a] = "setup"]
       ELSE /\ pc' = [pc EXCEPT ![a] = "done"]
            /\ UNCHANGED <<running_accounts, entered>>
    /\ UNCHANGED <<handlerVars, config, clockVars, atSignal, notified, orchPc, submitted, max_workers, unhandledLogged,
                   sweptCleared, sweptFailed, exc, drivers, h_logged_in>>

\* run_account: clear_account_temp_dir(account["name"]), before the try block;
\* os.makedirs / os.listdir raising leaves run_account with the exception
ClearTempDir(a) ==
    /\ pc[a] = "setup"
    /\ \E raises \in BOOLEAN :
        IF raises
        THEN /\ pc' = [pc EXCEPT ![a] = "done"]
             /\ exc' = [exc EXCEPT ![a] = TRUE]
        ELSE /\ pc' = [pc EXCEPT ![a] = "construct"]
             /\ UNCHANGED exc
    /\ UNCHANGED <<handlerVars, config, clockVars, atSignal, notified, orchPc, submitted, max_workers, running_accounts,
                   unhandledLogged, sweptCleared, sweptFailed, entered,
                   drivers, h_logged_in>>

\* run_account: cdc_handler = handler(...); a raise leaves cdc_handler None
\* and goes to the outer except
ConstructHandler(a) ==
    /\ pc[a] = "construct"
    /\ \E h \in HandlerInit :
        /\ drivers' = [drivers EXCEPT ![a] = h.created]
        /\ pc' = [pc EXCEPT ![a] = IF h.ok THEN "login" ELSE "setup_error"]
    /\ UNCHANGED <<handlerVars, config, clockVars, atSignal, notified, orchPc, submitted, max_workers, running_accounts,
                   unhandledLogged, sweptCleared, sweptFailed, exc, entered,
                   h_logged_in>>

\* NotificationManager.send_notification_all on behalf of account a: the
\* message goes out when a Discord manager was built, and nowhere otherwise
SendNotificationAll(a, title) ==
    IF discord_notification_enabled
    THEN [notified EXCEPT ![a] = @ \cup {title}]
    ELSE notified

LoginFailOpen(a) ==
    /\ pc[a] = "login"
    /\ \E ok \in BOOLEAN :
        /\ h_logged_in' = [h_logged_in EXCEPT ![a] = ok]
        /\ pc' = [pc EXCEPT ![a] = "process"]
    /\ UNCHANGED <<handlerVars, config, clockVars, atSignal, notified, orchPc, submitted, max_workers, running_accounts,
                   unhandledLogged, sweptCleared, sweptFailed, exc, entered,
                   drivers>>

\* run_account: success_logging_in = cdc_handler.account_login()
Login(a) ==
    /\ pc[a] = "login"
    /\ \E ok \in BOOLEAN :
        /\ h_logged_in' = [h_logged_in EXCEPT ![a] = ok]
        /\ pc' = [pc EXCEPT ![a] = IF ok THEN "process" ELSE "login_failed"]
    /\ UNCHANGED <<handlerVars, config, clockVars, atSignal, notified, orchPc, submitted, max_workers, running_accounts,
                   unhandledLogged, sweptCleared, sweptFailed, exc, entered,
                   drivers>>

\* run_account: if not success_logging_in: log, send "Login Failed" and
\* return through the finally blocks
LoginFailed(a) ==
    /\ pc[a] = "login_failed"
    /\ notified' = SendNotificationAll(a, "Login Failed")
    /\ pc' = [pc EXCEPT ![a] = "cleanup"]
    /\ UNCHANGED <<handlerVars, config, clockVars, atSignal, orchPc, submitted, max_workers, running_accounts,
                   unhandledLogged, sweptCleared, sweptFailed, exc, entered,
                   drivers, h_logged_in>>

\* run_account: process_account(monitored_types); an exception is caught by
\* the inner except
ProcessAccount(a) ==
    /\ pc[a] = "process"
    /\ \E raises \in BOOLEAN :
        pc' = [pc EXCEPT ![a] = IF raises THEN "process_error" ELSE "cleanup"]
    /\ UNCHANGED <<handlerVars, config, clockVars, atSignal, notified, orchPc, submitted, max_workers, running_accounts,
                   unhandledLogged, sweptCleared, sweptFailed, exc, entered,
                   drivers, h_logged_in>>

\* run_account, inner except: log and send the "Error" notification
ProcessError(a) ==
    /\ pc[a] = "process_error"
    /\ notified' = SendNotificationAll(a, "Error")
    /\ pc' = [pc EXCEPT ![a] = "cleanup"]
    /\ UNCHANGED <<handlerVars, config, clockVars, atSignal, orchPc, submitted, max_workers, running_accounts,
                   unhandledLogged, sweptCleared, sweptFailed, exc, entered,
                   drivers, h_logged_in>>

\* run_account, inner finally: account_logout() and driver.quit(), each in
\* its own try with a bare except
Cleanup(a) ==
    /\ pc[a] = "cleanup"
    /\ \E logoutRaises \in BOOLEAN :
        h_logged_in' = [h_logged_in EXCEPT
                           ![a] = IF logoutRaises THEN @ ELSE FALSE]
    /\ drivers' = [drivers EXCEPT ![a] = @ - 1]
    /\ pc' = [pc EXCEPT ![a] = "fin_check"]
    /\ UNCHANGED <<handlerVars, config, clockVars, atSignal, notified, orchPc, submitted, max_workers, running_accounts,
                   unhandledLogged, sweptCleared, sweptFailed, exc, entered>>

\* run_account, outer except: log and send the "Setup Error" notification
SetupError(a) ==
    /\ pc[a] = "setup_error"
    /\ notified' = SendNotificationAll(a, "Setup Error")
    /\ pc' = [pc EXCEPT ![a] = "fin_check"]
    /\ UNCHANGED <<handlerVars, config, clockVars, atSignal, orchPc, submitted, max_workers, running_accounts,
                   unhandledLogged, sweptCleared, sweptFailed, exc, entered,
                   drivers, h_logged_in>>

\* run_account, outer finally: if account['name'] in self.running_accounts
FinallyCheck(a) ==
    /\ pc[a] = "fin_check"
    /\ pc' = [pc EXCEPT ![a] = IF name[a] \in running_accounts
                               THEN "fin_remove" ELSE "done"]
    /\ UNCHANGED <<handlerVars, config, clockVars, atSignal, notified, orchPc, submitted, max_workers, running_accounts,
                   unhandledLogged, sweptCleared, sweptFailed, exc, entered,
                   drivers, h_logged_in>>

\* run_account, outer finally: self.running_accounts.remove(account['name']);
\* set.remove raises KeyError when another worker removed the name meanwhile
FinallyRemove(a) ==
    /\ pc[a] = "fin_remove"
    /\ running_accounts' = running_accounts \ {name[a]}
    /\ exc' = [exc EXCEPT ![a] = name[a] \notin running_accounts]
    /\ pc' = [pc EXCEPT ![a] = "done"]
    /\ UNCHANGED <<handlerVars, config, clockVars, atSignal, notified, orchPc, submitted, max_workers, unhandledLogged,
                   sweptCleared, sweptFailed, entered, drivers, h_logged_in>>

\* CollectResult without the try / except around future.result(): the
\* exception of the worker leaves run_all_accounts
CollectResultUncaught(a) ==
    /\ orchPc = "waiting"
    /\ pc[a] = "done"
    /\ pc' = [pc EXCEPT ![a] = "collected"]
    /\ orchPc' = IF exc[a] THEN "raised" ELSE orchPc
    /\ UNCHANGED <<handlerVars, config, clockVars, atSignal, notified, submitted, max_workers, running_accounts,
                   unhandledLogged, sweptCleared, sweptFailed, exc, entered,
                   drivers, h_logged_in>>

\* run_all_accounts: for future in as_completed(futures): future.result()
\* inside try / except Exception, which logs the unhandled exception
CollectResult(a) ==
    /\ orchPc = "waiting"
    /\ pc[a] = "done"
    /\ pc' = [pc EXCEPT ![a] = "collected"]
    /\ unhandledLogged' = IF exc[a] THEN unhandledLogged \cup {a}
                          ELSE unhandledLogged
    /\ UNCHANGED <<handlerVars, config, clockVars, atSignal, notified, orchPc, submitted, max_workers, running_accounts,
                   sweptCleared, sweptFailed, exc, entered, drivers,
                   h_logged_in>>

\* PoolJoined without as_completed and without the join of the with block
PoolJoinedEarly ==
    /\ orchPc = "waiting"
    /\ orchPc' = "sweep"
    /\ UNCHANGED <<handlerVars, config, clockVars, atSignal, notified, submitted, max_workers, running_accounts,
                   unhandledLogged, sweptCleared, sweptFailed, pc, exc,
                   entered, drivers, h_logged_in>>

\* run_all_accounts: as_completed is exhausted and the with block has joined
\* the pool
PoolJoined ==
    /\ orchPc = "waiting"
    /\ \A a \in EnabledAccounts : pc[a] = "collected"
    /\ orchPc' = "sweep"
    /\ UNCHANGED <<handlerVars, config, clockVars, atSignal, notified, submitted, max_workers, running_accounts,
                   unhandledLogged, sweptCleared, sweptFailed, pc, exc,
                   entered, drivers, h_logged_in>>

\* CleanupResources with the removal inside the try block: a name whose
\* directory could not be cleared stays in running_accounts
CleanupResourcesKeepsFailed ==
    /\ orchPc = "sweep"
    /\ sweptCleared' = running_accounts
    /\ \E failed \in SUBSET running_accounts :
        /\ sweptFailed' = failed
        /\ running_accounts' = failed
    /\ orchPc' = "returned"
    /\ UNCHANGED <<handlerVars, config, clockVars, atSignal, notified, submitted, max_workers, unhandledLogged, pc, exc,
                   entered, drivers, h_logged_in>>

\* _cleanup_resources: for every name still in running_accounts, clear its
\* temp directory inside try / except Exception, then remove the name
CleanupResources ==
    /\ orchPc = "sweep"
    /\ sweptCleared' = running_accounts
    /\ \E failed \in SUBSET running_accounts : sweptFailed' = failed
    /\ running_accounts' = {}
    /\ orchPc' = "returned"
    /\ UNCHANGED <<handlerVars, config, clockVars, atSignal, notified, submitted, max_workers, unhandledLogged, pc, exc,
                   entered, drivers, h_logged_in>>

Next ==
    \/ RunAllAccounts
    \/ Submit
    \/ SubmitDone
    \/ \E a \in Accounts : PoolPick(a)
    \/ \E a \in Accounts : EnterRunAccount(a)
    \/ \E a \in Accounts : ClearTempDir(a)
    \/ \E a \in Accounts : ConstructHandler(a)
    \/ \E a \in Accounts : Login(a)
    \/ \E a \in Accounts : LoginFailed(a)
    \/ \E a \in Accounts : ProcessAccount(a)
    \/ \E a \in Accounts : ProcessError(a)
    \/ \E a \in Accounts : Cleanup(a)
    \/ \E a \in Accounts : SetupError(a)
    \/ \E a \in Accounts : FinallyCheck(a)
    \/ \E a \in Accounts : FinallyRemove(a)
    \/ \E a \in Accounts : CollectResult(a)
    \/ PoolJoined
    \/ CleanupResources

Spec == Init /\ [][Next]_vars

\* a caller other than run_all_accounts calls run_account(account), for any
\* account of the configuration, before any pass and one call at a time
RunAccountDirect(a) ==
    /\ orchPc = "idle"
    /\ pc[a] = "unsubmitted"
    /\ \A b \in Accounts : pc[b] \notin ThreadPcs
    /\ pc' = [pc EXCEPT ![a] = "sleeping"]
    /\ UNCHANGED <<handlerVars, config, clockVars, atSignal, notified, orchPc, submitted, max_workers,
                   running_accounts, unhandledLogged, sweptCleared,
                   sweptFailed, exc, entered, drivers, h_logged_in>>

\* run_account was not called by anyone but a pass
NoDirectCall == orchPc = "idle" => \A a \in Accounts : pc[a] = "unsubmitted"

\* the passes of Spec, or else direct calls of run_account
NextAccount ==
    \/ NoDirectCall /\ RunAllAccounts
    \/ Submit
    \/ SubmitDone
    \/ \E a \in Accounts : PoolPick(a)
    \/ \E a \in Accounts : RunAccountDirect(a)
    \/ \E a \in Accounts : EnterRunAccount(a)
    \/ \E a \in Accounts : ClearTempDir(a)
    \/ \E a \in Accounts : ConstructHandler(a)
    \/ \E a \in Accounts : Login(a)
    \/ \E a \in Accounts : LoginFailed(a)
    \/ \E a \in Accounts : ProcessAccount(a)
    \/ \E a \in Accounts : ProcessError(a)
    \/ \E a \in Accounts : Cleanup(a)
    \/ \E a \in Accounts : SetupError(a)
    \/ \E a \in Accounts : FinallyCheck(a)
    \/ \E a \in Accounts : FinallyRemove(a)
    \/ \E a \in Accounts : CollectResult(a)
    \/ PoolJoined
    \/ CleanupResources

SpecAccount == Init /\ [][NextAccount]_vars

\* the passes of Spec with the Discord manager built: every account enabled
\* and a pool of one worker
InitNotify ==
    /\ enabled = [a \in Accounts |-> TRUE]
    /\ name \in NameChoices
    /\ has_credentials = AllCredentials
    /\ max_concurrent_accounts = 1
    /\ discord_notification_enabled = TRUE
    /\ OrchIdle
    /\ LoginIdle
    /\ PageIdle
    /\ SessionFresh
    /\ DiffIdle
    /\ EarliestIdle
    /\ WorkIdle
    /\ DiscordIdle
    /\ DashboardIdle
    /\ OverviewIdle
    /\ LogIdle

SpecNotify == InitNotify /\ [][Next]_vars

\* positions of a worker that was submitted and has not begun run_account
PendingPcs == {"queued", "sleeping"}

\* main.py, signal_handler: SIGINT or SIGTERM arrives during a pass and
\* sys.exit(0) raises SystemExit in the main thread. Inside the with block
\* the exception goes through ThreadPoolExecutor.__exit__, which is
\* shutdown(wait=True): nothing is cancelled, the pool is joined. During
\* _cleanup_resources it leaves the program at once.
Signal ==
    /\ orchPc \in {"submitting", "waiting", "sweep"}
    /\ atSignal = NoSignal
    /\ atSignal' = pc
    /\ orchPc' = IF orchPc = "sweep" THEN "exited" ELSE "exiting"
    /\ UNCHANGED <<handlerVars, config, clockVars, notified, submitted, max_workers,
                   running_accounts, unhandledLogged, sweptCleared,
                   sweptFailed, pc, exc, entered, drivers, h_logged_in>>

\* the with block of run_all_accounts has joined the pool threads; the
\* SystemExit leaves run_all_accounts before _cleanup_resources and is caught
\* by no except clause of main.py (it is not an Exception): the process ends
ExitJoin ==
    /\ orchPc = "exiting"
    /\ \A a \in Accounts : pc[a] \notin ThreadPcs \cup {"queued"}
    /\ orchPc' = "exited"
    /\ UNCHANGED <<handlerVars, config, clockVars, atSignal, notified, submitted,
                   max_workers, running_accounts, unhandledLogged,
                   sweptCleared, sweptFailed, pc, exc, entered, drivers,
                   h_logged_in>>

\* the passes of Spec with a shutdown signal
NextShutdown ==
    \/ RunAllAccounts
    \/ Submit
    \/ SubmitDone
    \/ \E a \in Accounts : PoolPick(a)
    \/ \E a \in Accounts : EnterRunAccount(a)
    \/ \E a \in Accounts : ClearTempDir(a)
    \/ \E a \in Accounts : ConstructHandler(a)
    \/ \E a \in Accounts : Login(a)
    \/ \E a \in Accounts : LoginFailed(a)
    \/ \E a \in Accounts : ProcessAccount(a)
    \/ \E a \in Accounts : ProcessError(a)
    \/ \E a \in Accounts : Cleanup(a)
    \/ \E a \in Accounts : SetupError(a)
    \/ \E a \in Accounts : FinallyCheck(a)
    \/ \E a \in Accounts : FinallyRemove(a)
    \/ \E a \in Accounts : CollectResult(a)
    \/ PoolJoined
    \/ CleanupResources
    \/ Signal
    \/ ExitJoin

SpecShutdown == Init /\ [][NextShutdown]_vars

(***************************************************************************)
(* The staggered starts of a pass, with a clock (SpecStagger)              *)
(***************************************************************************)

\* run_all_accounts: i of enumerate(enabled_accounts)
Position(a) == Cardinality({b \in EnabledAccounts : b < a})

NoDelay(i) == 0

\* run_all_accounts: delay = i * stagger_seconds
Delay(i) == i * stagger_seconds

\* PoolPick with the clock: a pool thread begins _delayed_account_start
\* (account, delay); time.sleep(delay_seconds) is over delay_seconds from
\* now at the earliest, and is not called when the delay is 0
DelayedAccountStart(a) ==
    /\ pc[a] = "queued"
    /\ \A b \in Accounts : pc[b] = "queued" => a <= b
    /\ Cardinality(BusyThreads) < max_workers
    /\ pc' = [pc EXCEPT ![a] = "sleeping"]
    /\ wake' = [wake EXCEPT ![a] = now + Delay(Position(a))]
    /\ UNCHANGED <<handlerVars, config, atSignal, notified, now, orchPc,
                   submitted, max_workers, running_accounts, unhandledLogged,
                   sweptCleared, sweptFailed, exc, entered, drivers,
                   h_logged_in>>

\* EnterRunAccount with the clock: time.sleep has returned and
\* _delayed_account_start calls run_account
RunAccountAfterSleep(a) ==
    /\ pc[a] = "sleeping"
    /\ now >= wake[a]
    /\ IF enabled[a]
       THEN /\ running_accounts' = running_accounts \cup {name[a]}
            /\ entered' = [entered EXCEPT ![a] = @ + 1]
            /\ pc' = [pc EXCEPT ![a] = "setup"]
       ELSE /\ pc' = [pc EXCEPT ![a] = "done"]
            /\ UNCHANGED <<running_accounts, entered>>
    /\ UNCHANGED <<handlerVars, config, clockVars, atSignal, notified, orchPc,
                   submitted, max_workers, unhandledLogged, sweptCleared,
                   sweptFailed, exc, drivers, h_logged_in>>

\* time passes
Tick ==
    /\ now + TickSeconds <= MaxTime
    /\ now' = now + TickSeconds
    /\ UNCHANGED <<handlerVars, config, atSignal, notified, wake, orchPc,
                   submitted, max_workers, running_accounts, unhandledLogged,
                   sweptCleared, sweptFailed, pc, exc, entered, drivers,
                   h_logged_in>>

\* distinct names, a pool for every enabled account or a pool of one
InitStagger ==
    /\ enabled \in [Accounts -> BOOLEAN]
    /\ name = [a \in Accounts |-> a]
    /\ has_credentials = AllCredentials
    /\ max_concurrent_accounts \in 0..1
    /\ discord_notification_enabled = FALSE
    /\ OrchIdle
    /\ LoginIdle
    /\ PageIdle
    /\ SessionFresh
    /\ DiffIdle
    /\ EarliestIdle
    /\ WorkIdle
    /\ DiscordIdle
    /\ DashboardIdle
    /\ OverviewIdle
    /\ LogIdle

\* the passes of Spec on the clock
NextStagger ==
    \/ RunAllAccounts
    \/ Submit
    \/ SubmitDone
    \/ \E a \in Accounts : DelayedAccountStart(a)
    \/ \E a \in Accounts : RunAccountAfterSleep(a)
    \/ \E a \in Accounts : ClearTempDir(a)
    \/ \E a \in Accounts : ConstructHandler(a)
    \/ \E a \in Accounts : Login(a)
    \/ \E a \in Accounts : LoginFailed(a)
    \/ \E a \in Accounts : ProcessAccount(a)
    \/ \E a \in Accounts : ProcessError(a)
    \/ \E a \in Accounts : Cleanup(a)
    \/ \E a \in Accounts : SetupError(a)
    \/ \E a \in Accounts : FinallyCheck(a)
    \/ \E a \in Accounts : FinallyRemove(a)
    \/ \E a \in Accounts : CollectResult(a)
    \/ PoolJoined
    \/ CleanupResources
    \/ Tick

SpecStagger == InitStagger /\ [][NextStagger]_vars

\* C31: the worker of the account at position i of the enabled list does not
\* enter run_account before i * stagger_seconds have passed since the pass
\* began, and the worker at position 0 is not made to wait: as soon as it
\* has a pool thread it can enter.
C31_StaggeredStart ==
    /\ [](\A a \in EnabledAccounts :
            (pc[a] = "sleeping" /\ Position(a) = 0) => now >= wake[a])
    /\ [][\A a \in EnabledAccounts :
            (pc[a] = "sleeping" /\ pc'[a] = "setup") =>
                now >= Position(a) * stagger_seconds]_vars

\* the account at position 1 has entered run_account when its delay of
\* stagger_seconds was just over, while the account at position 0, which
\* entered at once, is still inside run_account
C31_Witness ==
    /\ Position(2) = 1
    /\ pc[2] = "setup"
    /\ pc[1] \in RunPcs
    /\ wake[1] = 0
    /\ wake[2] = stagger_seconds
    /\ now >= stagger_seconds

\* the passes of Spec with the Discord manager built, accounts that lack a
\* username or a password, every account enabled and a pool for all of them
InitSetup ==
    /\ enabled = [a \in Accounts |-> TRUE]
    /\ name \in NameChoices
    /\ has_credentials \in [Accounts -> BOOLEAN]
    /\ max_concurrent_accounts = 0
    /\ discord_notification_enabled = TRUE
    /\ OrchIdle
    /\ LoginIdle
    /\ PageIdle
    /\ SessionFresh
    /\ DiffIdle
    /\ EarliestIdle
    /\ WorkIdle
    /\ DiscordIdle
    /\ DashboardIdle
    /\ OverviewIdle
    /\ LogIdle

SpecSetup == InitSetup /\ [][Next]_vars

(***************************************************************************)
(* The Log object the workers share (SpecLog)                              *)
(***************************************************************************)

\* ConstructHandler with the line after it: handler(..., log=self.log, ...)
\* is given the Log of the AccountManager, and
\* cdc_handler.log.set_prefix(f"[{account['name']}] ") writes the prefix of
\* that one object
ConstructHandlerSetPrefix(a) ==
    /\ pc[a] = "construct"
    /\ \E h \in HandlerInit :
        /\ drivers' = [drivers EXCEPT ![a] = h.created]
        /\ pc' = [pc EXCEPT ![a] = IF h.ok THEN "login" ELSE "setup_error"]
        /\ prefix' = IF h.ok THEN name[a] ELSE prefix
    /\ UNCHANGED <<loginVars, pageVars, sessVars, diffVars, earlVars, workVars,
                   discVars, dashVars, ovVars, config, clockVars, atSignal,
                   notified, orchPc, submitted, max_workers, running_accounts,
                   unhandledLogged, sweptCleared, sweptFailed, exc, entered,
                   h_logged_in>>

\* positions of run_account in which the worker logs through cdc_handler.log
\* on behalf of its account: the login, the processing and their failures
HandlerLogPcs == {"login", "login_failed", "process", "process_error"}

\* distinct names, every account enabled, a pool for all or a pool of one
InitLog ==
    /\ enabled = [a \in Accounts |-> TRUE]
    /\ name = [a \in Accounts |-> a]
    /\ has_credentials = AllCredentials
    /\ max_concurrent_accounts \in 0..1
    /\ discord_notification_enabled = FALSE
    /\ OrchIdle
    /\ LoginIdle
    /\ PageIdle
    /\ SessionFresh
    /\ DiffIdle
    /\ EarliestIdle
    /\ WorkIdle
    /\ DiscordIdle
    /\ DashboardIdle
    /\ OverviewIdle
    /\ LogIdle

\* the passes of Spec with the prefix of the Log
NextLog ==
    \/ RunAllAccounts
    \/ Submit
    \/ SubmitDone
    \/ \E a \in Accounts : PoolPick(a)
    \/ \E a \in Accounts : EnterRunAccount(a)
    \/ \E a \in Accounts : ClearTempDir(a)
    \/ \E a \in Accounts : ConstructHandlerSetPrefix(a)
    \/ \E a \in Accounts : Login(a)
    \/ \E a \in Accounts : LoginFailed(a)
    \/ \E a \in Accounts : ProcessAccount(a)
    \/ \E a \in Accounts : ProcessError(a)
    \/ \E a \in Accounts : Cleanup(a)
    \/ \E a \in Accounts : SetupError(a)
    \/ \E a \in Accounts : FinallyCheck(a)
    \/ \E a \in Accounts : FinallyRemove(a)
    \/ \E a \in Accounts : CollectResult(a)
    \/ PoolJoined
    \/ CleanupResources

SpecLog == InitLog /\ [][NextLog]_vars

\* with a pool of one worker the prefix is that of the account being run
PrefixOwnWithOneWorker ==
    max_workers = 1 =>
        \A a \in Accounts : pc[a] \in HandlerLogPcs => prefix = name[a]

\* C39: while a worker logs on behalf of its account, the prefix of the Log
\* is the prefix of that account: no other worker has replaced it.
C39_PrefixOwn ==
    \A a \in Accounts : pc[a] \in HandlerLogPcs => prefix = name[a]

(***************************************************************************)
(* Claims about the orchestrator (checked under Spec)                      *)
(***************************************************************************)

\* the pass has 0 < max_concurrent_accounts <= number of enabled accounts
BoundedPass ==
    /\ max_concurrent_accounts > 0
    /\ max_concurrent_accounts <= Cardinality(EnabledAccounts)

\* C1: with 0 < M <= K, at most M workers are inside run_account at any
\* time, that is, running_accounts never holds more than M accounts.
C1_ConcurrencyBound ==
    BoundedPass =>
        /\ Cardinality(RunningWorkers) <= max_concurrent_accounts
        /\ Cardinality(running_accounts) <= max_concurrent_accounts

\* the part of C1 the pool does enforce: the workers inside run_account
\* never outnumber the pool
WorkersWithinPool ==
    BoundedPass => Cardinality(RunningWorkers) <= max_concurrent_accounts

\* C2: an exception of one worker is caught at future.result() and logged;
\* run_all_accounts does not raise, and when it gets to its sweep every
\* enabled account has entered run_account once and its future is complete.
C2_SiblingsSurviveException ==
    /\ orchPc # "raised"
    /\ \A a \in Accounts :
        (pc[a] = "collected" /\ exc[a]) => a \in unhandledLogged
    /\ (orchPc \in {"sweep", "returned"} /\ max_workers > 0) =>
        \A a \in EnabledAccounts : pc[a] = "collected" /\ entered[a] = 1

\* a pass that returned, in which one worker raised and another, started
\* after it, ran to its end without an exception
C2_Witness ==
    /\ orchPc = "returned"
    /\ \E a, b \in EnabledAccounts :
        /\ a < b
        /\ exc[a] /\ a \in unhandledLogged
        /\ ~exc[b] /\ pc[b] = "collected" /\ entered[b] = 1

\* C3: every driver created during run_account has been quit when
\* run_account ends, whatever failed before.
C3_DriverReleased ==
    \A a \in Accounts : pc[a] \in EndPcs => drivers[a] = 0

\* C4: run_account never leaves an exception to its caller.
C4_RunAccountNeverRaises ==
    \A a \in Accounts : ~exc[a]

\* C5: the sweep clears the workspace of every account still marked running
\* and empties running_accounts, also when clearing fails; so a pass that ran
\* workers returns with running_accounts empty.
C5_SweepEmptiesRunningSet ==
    /\ []((orchPc = "returned" /\ max_workers > 0) => running_accounts = {})
    /\ [][orchPc = "sweep" =>
            /\ orchPc' = "returned"
            /\ sweptCleared' = running_accounts
            /\ running_accounts' = {}]_vars

\* a pass returned after the sweep found a stale name whose workspace could
\* not be cleared
C5_Witness ==
    /\ orchPc = "returned"
    /\ sweptCleared # {}
    /\ sweptFailed # {}
    /\ running_accounts = {}

\* C17: run_account does nothing for an account that is not enabled, called
\* by a pass or directly: the account is not scheduled, it is never added to
\* running_accounts, its workspace is not cleared, no driver is created and
\* no login attempted for it; its name is in running_accounts only if an
\* enabled account bears the same name.
C17_DisabledSkipped ==
    \A a \in Accounts :
        ~enabled[a] =>
            /\ pc[a] \notin RunPcs \cup {"queued"}
            /\ entered[a] = 0
            /\ drivers[a] = 0
            /\ ~h_logged_in[a]
            /\ ~exc[a]
            /\ (\A b \in EnabledAccounts : name[b] # name[a]) =>
                  name[a] \notin
                      running_accounts \cup sweptCleared \cup sweptFailed

\* a disabled account given to run_account directly and one left out by a
\* pass
C17_Witness ==
    \E a \in Accounts :
        /\ ~enabled[a]
        /\ \/ orchPc = "idle" /\ pc[a] = "done"
           \/ /\ orchPc = "returned" /\ max_workers > 0
              /\ pc[a] = "unsubmitted"

\* C19: with no enabled account run_all_accounts returns at once: every call
\* ends in "returned" with no pool built, no account submitted or started and
\* running_accounts as it was, and the orchestrator is never anywhere between
\* the call and the return, nor raising.
C19_NoEnabledReturnsAtOnce ==
    /\ [](EnabledAccounts = {} =>
            /\ orchPc \in {"idle", "returned"}
            /\ max_workers = 0
            /\ submitted = 0
            /\ \A a \in Accounts : pc[a] = "unsubmitted" /\ ~exc[a]
            /\ unhandledLogged = {}
            /\ sweptCleared = {}
            /\ sweptFailed = {})
    /\ [][EnabledAccounts = {} =>
            /\ orchPc' = "returned"
            /\ running_accounts' = running_accounts]_vars

\* a pass over a configuration without enabled accounts has returned
C19_Witness ==
    /\ EnabledAccounts = {}
    /\ orchPc = "returned"
    /\ max_workers = 0

\* C32: an invocation of run_all_accounts is one pass: no account enters
\* run_account twice and a disabled one never; when run_all_accounts is at
\* its sweep or has returned, every enabled account has entered run_account
\* exactly once and its worker has finished; and between invocations
\* running_accounts is empty and no worker is queued, asleep or running, so
\* the next invocation starts from an empty running set.
C32_OnePassPerInvocation ==
    /\ \A a \in Accounts :
        /\ entered[a] <= 1
        /\ ~enabled[a] => entered[a] = 0
    /\ orchPc \in {"sweep", "returned"} =>
        \A a \in EnabledAccounts : entered[a] = 1 /\ pc[a] = "collected"
    /\ orchPc \in {"idle", "returned"} =>
        /\ running_accounts = {}
        /\ \A a \in Accounts : pc[a] \notin ThreadPcs \cup {"queued"}

\* a pass over two enabled accounts has returned: each was started once and
\* is finished, one of them with a name left in running_accounts for the
\* sweep
C32_Witness ==
    /\ orchPc = "returned"
    /\ Cardinality(EnabledAccounts) = NumAccounts
    /\ \A a \in Accounts : entered[a] = 1 /\ pc[a] = "collected"
    /\ sweptCleared # {}
    /\ running_accounts = {}

\* the handler of the account could not be constructed in this pass
SetupFailed(a) == "Setup Error" \in notified[a]

\* an account without username or password gets no worker; a failed
\* construction of the handler is notified as a setup error, and the account
\* then neither logs in nor processes a category and sends nothing else
SetupErrorStopsAccount ==
    /\ [](\A a \in Accounts :
            /\ ~has_credentials[a] =>
                    /\ pc[a] = "unsubmitted"
                    /\ entered[a] = 0
                    /\ notified[a] = {}
            /\ SetupFailed(a) =>
                    /\ pc[a] \in {"fin_check", "fin_remove", "done", "collected"}
                    /\ ~h_logged_in[a]
                    /\ notified[a] = {"Setup Error"})
    /\ [][\A a \in Accounts :
            (pc[a] = "setup_error" /\ pc'[a] # "setup_error") =>
                (pc'[a] = "fin_check" /\ SetupFailed(a)')]_vars

\* C34: a setup error is fatal to the one account only. An account without
\* username or password gets no worker; a failed construction of the handler
\* is notified as a setup error, is followed by no login and no processing,
\* and the account is taken out of running_accounts; and the steps of the
\* failed account take no other running worker out of running_accounts and
\* leave no other worker with an exception.
C34_SetupErrorFatalToOneAccount ==
    /\ SetupErrorStopsAccount
    /\ [](\A a \in Accounts :
            (SetupFailed(a) /\ pc[a] \in EndPcs) =>
                \/ name[a] \notin running_accounts
                \/ \E b \in Accounts \ {a} : name[b] = name[a])
    /\ [][\A a \in Accounts :
            (SetupFailed(a) /\ pc[a] = "fin_remove" /\ pc'[a] = "done") =>
                \A b \in Accounts \ {a} :
                    (pc[b] \in RunPcs /\ name[b] \in running_accounts) =>
                        name[b] \in running_accounts']_vars
    /\ [](\A a, b \in Accounts :
            (a # b /\ SetupFailed(a) /\ ~SetupFailed(b) /\ entered[b] = 1
                /\ pc[b] \notin {"setup", "done", "collected"}) => ~exc[b])

\* the worker of the account uses the directory temp/<name>: from its
\* clear_account_temp_dir to the end of run_account
UsesWorkspace(a) == pc[a] \in RunPcs \ {"setup"}

\* the sweep clears workspaces only when no worker is inside run_account
SweepAfterWorkers ==
    orchPc = "sweep" => \A a \in Accounts : pc[a] \notin RunPcs

\* C36: no two workers use the same workspace directory at the same time,
\* and no worker clears, at its start, the directory a running worker uses;
\* nor does the sweep.
C36_WorkspaceExclusive ==
    /\ [](\A a, b \in Accounts :
            (a # b /\ UsesWorkspace(a) /\ UsesWorkspace(b)) =>
                name[a] # name[b])
    /\ [][\A b \in Accounts :
            (pc[b] = "setup" /\ pc'[b] # "setup") =>
                \A a \in Accounts \ {b} :
                    UsesWorkspace(a) => name[a] # name[b]]_vars
    /\ []SweepAfterWorkers

\* the process does not end while a worker is inside run_account, asleep or
\* queued: every worker submitted before the signal runs to its end
WorkersFinishBeforeExit ==
    orchPc = "exited" =>
        \A a \in Accounts : pc[a] \in EndPcs \cup {"unsubmitted"}

\* C21: when the process ends after a shutdown signal, every worker that was
\* inside run_account at the signal has finished, holds no driver and has
\* its name out of running_accounts.
C21_InFlightReachCleanup ==
    orchPc = "exited" =>
        \A a \in Accounts :
            atSignal[a] \in RunPcs =>
                /\ pc[a] \in EndPcs
                /\ drivers[a] = 0
                /\ name[a] \notin running_accounts

\* C22: a worker that was queued or waiting out its delay when the shutdown
\* signal came never goes past the enabled check of run_account: it enters
\* no running set, clears no workspace, creates no driver and does not log
\* in.
C22_PendingCancelled ==
    \A a \in Accounts :
        atSignal[a] \in PendingPcs =>
            /\ entered[a] = 0
            /\ pc[a] \notin RunPcs
            /\ drivers[a] = 0
            /\ ~h_logged_in[a]

\* the failures run_account catches are notified: a failed login sends
\* "Login Failed", an exception of process_account sends "Error", a failed
\* handler construction sends "Setup Error", each under the account's name
CaughtFailuresNotified ==
    [][\A a \in Accounts :
        /\ pc[a] = "login_failed" /\ pc'[a] # "login_failed"
               => "Login Failed" \in notified'[a]
        /\ pc[a] = "process_error" /\ pc'[a] # "process_error"
               => "Error" \in notified'[a]
        /\ pc[a] = "setup_error" /\ pc'[a] # "setup_error"
               => "Setup Error" \in notified'[a]]_vars

\* C23: with notifications enabled, every worker that has ended in failure -
\* a failed login, a caught error, a setup error or an exception that left
\* run_account - has had a notification sent under its account's name.
C23_EveryFailureNotified ==
    /\ CaughtFailuresNotified
    /\ [](\A a \in Accounts :
            pc[a] \in EndPcs /\ exc[a] => notified[a] # {})

\* C27: process_account is entered only from a login that returned success
\* and with the handler logged in; a login that returned failure leaves the
\* handler logged out and is followed by the cleanup of the inner finally,
\* nothing else.
C27_LoginFailsClosed ==
    /\ [](\A a \in Accounts :
            /\ pc[a] \in {"process", "process_error"} => h_logged_in[a]
            /\ pc[a] = "login_failed" => ~h_logged_in[a])
    /\ [][\A a \in Accounts :
            /\ pc'[a] = "process" /\ pc[a] # "process" => pc[a] = "login"
            /\ pc[a] = "login_failed" /\ pc'[a] # "login_failed" =>
                  /\ pc'[a] = "cleanup"
                  /\ ~h_logged_in'[a]]_vars

\* a worker in its cleanup after a login that failed
C27_Witness ==
    \E a \in Accounts :
        /\ pc[a] = "cleanup"
        /\ ~h_logged_in[a]
        /\ "Login Failed" \in notified[a]

\* C18: the pool of a pass has max_concurrent_accounts workers when
\* 0 < max_concurrent_accounts <= number of enabled accounts, and as many
\* workers as there are enabled accounts otherwise.
C18_PoolSize ==
    (orchPc \in {"submitting", "waiting", "sweep"}
        \/ (orchPc = "returned" /\ EnabledAccounts # {})) =>
        max_workers =
            IF /\ 0 < max_concurrent_accounts
               /\ max_concurrent_accounts <= Cardinality(EnabledAccounts)
            THEN max_concurrent_accounts
            ELSE Cardinality(EnabledAccounts)

\* a pass whose max_concurrent_accounts exceeds the enabled accounts
C18_Witness ==
    /\ orchPc = "waiting"
    /\ max_concurrent_accounts > Cardinality(EnabledAccounts)
    /\ max_workers = Cardinality(EnabledAccounts)
    /\ max_workers > 0

(***************************************************************************)
(* handler.account_login and handler.account_logout (SpecLogin)            *)
(***************************************************************************)

notLogin == <<orchVars, logVars, discVars, dashVars, ovVars, pageVars, sessVars, diffVars, earlVars, workVars>>

\* positions of account_login after open_home_page returned
AfterHomePcs == {"prompt", "userId", "password", "captcha", "login_btn",
                 "alert", "verify"}

\* how a wait on the driver ends: the element came, TimeoutException, or
\* another exception (caught by the except Exception of account_login)
WaitOutcomes == {"ok", "timeout", "error"}

\* account_login: return <result>
LoginReturn(result) ==
    /\ loginPc' = "returned"
    /\ loginResult' = result
    /\ UNCHANGED current_attempt

\* LoginRetry going on with the step that failed instead of calling
\* account_login again
LoginRetryResumes ==
    IF current_attempt < max_login_attempts
    THEN /\ loginPc' = loginPc
         /\ current_attempt' = current_attempt + 1
         /\ UNCHANGED loginResult
    ELSE LoginReturn("False")

\* account_login: if current_attempt < max_login_attempts:
\*     return self.account_login(max_login_attempts, current_attempt + 1)
\* return False
LoginRetry ==
    IF current_attempt < max_login_attempts
    THEN /\ loginPc' = "guard"
         /\ current_attempt' = current_attempt + 1
         /\ UNCHANGED loginResult
    ELSE LoginReturn("False")

\* a caller invokes account_login(max_login_attempts = m)
AccountLoginCall ==
    /\ loginPc \in {"idle", "returned"}
    /\ \E m \in 0..DefaultMaxLoginAttempts : max_login_attempts' = m
    /\ current_attempt' = 1
    /\ attempts' = 0
    /\ loginResult' = "none"
    /\ loginPc' = "guard"
    /\ UNCHANGED <<notLogin, logged_in, port, current_url>>

\* account_login: if current_attempt > max_login_attempts: return False
LoginGuard ==
    /\ loginPc = "guard"
    /\ IF current_attempt > max_login_attempts
       THEN LoginReturn("False")
       ELSE /\ loginPc' = "open_home_page"
            /\ UNCHANGED <<current_attempt, loginResult>>
    /\ UNCHANGED <<notLogin, logged_in, port, current_url, max_login_attempts,
                   attempts>>

\* account_login: self.open_home_page(sleep_delay=2)
OpenHomePage ==
    /\ loginPc = "open_home_page"
    /\ attempts' = attempts + 1
    /\ \E raises \in BOOLEAN :
        IF raises
        THEN LoginReturn("False")
        ELSE /\ loginPc' = "prompt"
             /\ UNCHANGED <<current_attempt, loginResult>>
    /\ UNCHANGED <<notLogin, logged_in, port, current_url, max_login_attempts>>

\* a step of account_login that waits for an element at position `at`, goes
\* on to `next` when it came and retries the login on TimeoutException
WaitStep(at, next) ==
    /\ loginPc = at
    /\ \E o \in WaitOutcomes :
        CASE o = "ok" -> /\ loginPc' = next
                         /\ UNCHANGED <<current_attempt, loginResult>>
          [] o = "timeout" -> LoginRetry
          [] OTHER -> LoginReturn("False")
    /\ UNCHANGED <<notLogin, logged_in, port, current_url, max_login_attempts,
                   attempts>>

\* account_login: the "Learner's Login" link
ClickPrompt == WaitStep("prompt", "userId")

\* account_login: the userId field of the login popup
WaitUserId == WaitStep("userId", "password")

\* account_login: the password field, then send_keys; a timeout returns
\* False without another attempt
WaitPassword ==
    /\ loginPc = "password"
    /\ \E o \in WaitOutcomes :
        IF o = "ok"
        THEN /\ loginPc' = "captcha"
             /\ UNCHANGED <<current_attempt, loginResult>>
        ELSE LoginReturn("False")
    /\ UNCHANGED <<notLogin, logged_in, port, current_url, max_login_attempts,
                   attempts>>

\* account_login: captcha_solver.solve(captcha_type="recaptcha_v2")
SolveCaptcha ==
    /\ loginPc = "captcha"
    /\ \E o \in {"solved", "unsolved", "error"} :
        CASE o = "solved" -> /\ loginPc' = "login_btn"
                             /\ UNCHANGED <<current_attempt, loginResult>>
          [] o = "unsolved" -> LoginRetry
          [] OTHER -> LoginReturn("False")
    /\ UNCHANGED <<notLogin, logged_in, port, current_url, max_login_attempts,
                   attempts>>

\* account_login: the final login button
ClickLogin == WaitStep("login_btn", "alert")

\* account_login: dismiss_alert; the "complete the captcha" alert retries
HandleAlert ==
    /\ loginPc = "alert"
    /\ \E captchaAlert \in BOOLEAN :
        IF captchaAlert
        THEN LoginRetry
        ELSE /\ loginPc' = "verify"
             /\ UNCHANGED <<current_attempt, loginResult>>
    /\ UNCHANGED <<notLogin, logged_in, port, current_url, max_login_attempts,
                   attempts>>

\* VerifyUrl taking the portal URL itself as proof of the login
VerifyUrlAnyPortal ==
    /\ loginPc = "verify"
    /\ \E u \in Urls :
        /\ current_url' = u
        /\ IF u.portal
           THEN /\ port' = IF Len(u.digits) > 0
                           THEN u.digits[Len(u.digits)] ELSE port
                /\ logged_in' = TRUE
                /\ LoginReturn("True")
           ELSE /\ LoginRetry
                /\ UNCHANGED <<port, logged_in>>
    /\ UNCHANGED <<notLogin, max_login_attempts, attempts>>

\* account_login: "NewPortal" in current_url, re.findall(r'\d+', current_url),
\* port = str(url_digits[-1]), logged_in = True
VerifyUrl ==
    /\ loginPc = "verify"
    /\ \E u \in Urls :
        /\ current_url' = u
        /\ IF u.portal /\ Len(u.digits) > 0
           THEN /\ port' = u.digits[Len(u.digits)]
                /\ logged_in' = TRUE
                /\ LoginReturn("True")
           ELSE /\ LoginRetry
                /\ UNCHANGED <<port, logged_in>>
    /\ UNCHANGED <<notLogin, max_login_attempts, attempts>>

\* account_logout: _open_index(logOut.aspx), then logged_in = False; when the
\* page load raises the flag is left as it was
AccountLogout ==
    /\ loginPc \in {"idle", "returned"}
    /\ \E raises \in BOOLEAN :
        logged_in' = IF raises THEN logged_in ELSE FALSE
    /\ loginPc' = "idle"
    /\ UNCHANGED <<notLogin, port, current_url, max_login_attempts,
                   current_attempt, attempts, loginResult>>

InitLogin ==
    /\ OneConfig
    /\ OrchIdle
    /\ LoginIdle
    /\ PageIdle
    /\ SessionFresh
    /\ DiffIdle
    /\ EarliestIdle
    /\ WorkIdle
    /\ DiscordIdle
    /\ DashboardIdle
    /\ OverviewIdle
    /\ LogIdle

NextLogin ==
    \/ AccountLoginCall
    \/ LoginGuard
    \/ OpenHomePage
    \/ ClickPrompt
    \/ WaitUserId
    \/ WaitPassword
    \/ SolveCaptcha
    \/ ClickLogin
    \/ HandleAlert
    \/ VerifyUrl
    \/ AccountLogout

\* every wait of account_login is bounded by a timeout, so a call in progress
\* always takes its next step
SpecLogin == InitLogin /\ [][NextLogin]_vars /\ WF_vars(NextLogin)

\* C8: a call of account_login makes at most max_login_attempts attempts,
\* every attempt begins with open_home_page (the number of home-page loads of
\* the call equals the number of the attempt under way), and the call ends.
C8_LoginAttemptsBounded ==
    /\ [](attempts <= max_login_attempts)
    /\ [](loginPc \in AfterHomePcs => attempts = current_attempt)
    /\ [](loginPc \in {"guard", "open_home_page"}
            => attempts = current_attempt - 1)
    /\ (loginPc \notin {"idle", "returned"}) ~> (loginPc = "returned")

\* C28: account_login returns False only after max_login_attempts attempts.
C28_FailureOnlyAfterAllAttempts ==
    (loginPc = "returned" /\ loginResult = "False") =>
        attempts >= max_login_attempts

\* a call that used up all three attempts of the default and returned False
C8_Witness ==
    /\ loginPc = "returned"
    /\ loginResult = "False"
    /\ max_login_attempts = DefaultMaxLoginAttempts
    /\ attempts = DefaultMaxLoginAttempts

\* C9: account_login returns True only with logged_in set and port the last
\* digit group of the portal URL it saw; a portal URL without digits does not
\* count as a login; logged_in never holds while port is empty.
C9_LoginSuccessHasToken ==
    /\ logged_in => port # ""
    /\ (loginPc = "returned" /\ loginResult = "True") =>
        /\ logged_in
        /\ current_url.portal
        /\ Len(current_url.digits) > 0
        /\ port = current_url.digits[Len(current_url.digits)]

\* a login that succeeded on a later attempt, the URL holding two digit groups
C9_Witness ==
    /\ loginPc = "returned"
    /\ loginResult = "True"
    /\ attempts > 1
    /\ Len(current_url.digits) = 2
    /\ port = current_url.digits[2]

(***************************************************************************)
(* handler.open_practical_lessons_booking_page (SpecPage)                  *)
(***************************************************************************)

loginRest == <<current_url, loginPc, max_login_attempts, current_attempt,
               attempts, loginResult>>

notPage == <<orchVars, logVars, discVars, dashVars, ovVars, loginRest, sessVars, diffVars, earlVars, workVars>>

\* open_field_type_booking_page(Types.PRACTICAL): the page open of one
\* Refreshing phase begins, call_depth = 0
OpenPracticalLessonsCall ==
    /\ pagePc \in {"idle", "returned"}
    /\ pagePc' = "guard"
    /\ call_depth' = 0
    /\ failures' = 0
    /\ relogins' = 0
    /\ escalated' = FALSE
    /\ pageResult' = "none"
    /\ UNCHANGED <<notPage, logged_in, port>>

\* check_call_depth, with the "if not ...: call_depth = 0" of its caller:
\* beyond the ceiling account_logout() and account_login() are called (the
\* result of the login is not looked at); account_logout raising leaves the
\* page open with the exception
CheckCallDepth ==
    /\ pagePc = "guard"
    /\ IF call_depth > CallDepthCeiling
       THEN \E logoutRaises \in BOOLEAN :
            IF logoutRaises
            THEN /\ pagePc' = "returned"
                 /\ pageResult' = "raised"
                 /\ UNCHANGED <<call_depth, relogins, escalated, logged_in,
                                port>>
            ELSE /\ \E ok \in BOOLEAN, p \in DigitGroups :
                    /\ logged_in' = ok
                    /\ port' = IF ok THEN p ELSE port
                 /\ relogins' = relogins + 1
                 /\ call_depth' = 0
                 /\ escalated' = TRUE
                 /\ pagePc' = "open"
                 /\ UNCHANGED pageResult
       ELSE /\ pagePc' = "open"
            /\ escalated' = FALSE
            /\ UNCHANGED <<call_depth, relogins, pageResult, logged_in, port>>
    /\ UNCHANGED <<notPage, failures>>

\* what one pass through the body of the page open comes to
PageOutcomes == {"raised", "False", "True", "captcha_failed"}

\* open_practical_lessons_booking_page after the guard: _open_index, access
\* rights, course data and selection, dismiss_normal_captcha; a failed
\* CAPTCHA calls the function again with call_depth + 1
OpenBookingPage ==
    /\ pagePc = "open"
    /\ \E o \in PageOutcomes :
        IF o = "captcha_failed"
        THEN /\ failures < MaxFailures
             /\ failures' = failures + 1
             /\ call_depth' = call_depth + 1
             /\ pagePc' = "guard"
             /\ UNCHANGED pageResult
        ELSE /\ pagePc' = "returned"
             /\ pageResult' = o
             /\ UNCHANGED <<failures, call_depth>>
    /\ UNCHANGED <<notPage, relogins, escalated, logged_in, port>>

\* the handler is logged in when a category is refreshed
InitPage ==
    /\ OneConfig
    /\ OrchIdle
    /\ logged_in = TRUE
    /\ port \in DigitGroups
    /\ current_url = NoUrl
    /\ loginPc = "idle"
    /\ max_login_attempts = DefaultMaxLoginAttempts
    /\ current_attempt = 1
    /\ attempts = 0
    /\ loginResult = "none"
    /\ PageIdle
    /\ SessionFresh
    /\ DiffIdle
    /\ EarliestIdle
    /\ WorkIdle
    /\ DiscordIdle
    /\ DashboardIdle
    /\ OverviewIdle
    /\ LogIdle

NextPage ==
    \/ OpenPracticalLessonsCall
    \/ CheckCallDepth
    \/ OpenBookingPage

SpecPage == InitPage /\ [][NextPage]_vars

\* C7: once more than CallDepthCeiling consecutive page opens of a phase have
\* failed, exactly one forced logout and login has taken place, and the
\* invocation that forced it goes on with call_depth 0.
C7_ExactlyOneRelogin ==
    (pagePc = "open" /\ failures > CallDepthCeiling) =>
        /\ relogins = 1
        /\ escalated => call_depth = 0

\* the guard forces a logout and login at every fifth consecutive failure
\* and lets the page open go on each time
ReloginEveryFifthFailure ==
    pagePc = "open" => relogins = failures \div (CallDepthCeiling + 1)

\* the forced re-login of the guard is the only thing that logs the handler
\* out during a page open
LoggedOutOnlyByGuard ==
    [][(logged_in /\ ~logged_in') =>
            (pagePc = "guard" /\ call_depth > CallDepthCeiling)]_vars

\* C38: a booking page is opened only while logged_in is True, also after a
\* forced re-login: when the login of the guard fails, the page open does
\* not go on to the booking page.
C38_PagesOnlyWhileLoggedIn == pagePc = "open" => logged_in

\* C25: the page opens of one Refreshing phase are bounded: the failures that
\* take call_depth beyond the ceiling, then one more attempt after the
\* forced re-login.
C25_PageOpensBounded == failures <= CallDepthCeiling + 2

(***************************************************************************)
(* handler.open_practical_test_booking_page (SpecTest)                     *)
(***************************************************************************)

\* lesson names as the dashboard shows them in the fifth cell of a row
LessonNames == {"", "3A PRACTICAL 5", "3A REVISION 2", "3a revision 2"}

\* "REVISION" in lesson_name: the substring test, which is case-sensitive,
\* over LessonNames
IsRevision(lesson_name) == lesson_name \in {"3A REVISION 2"}

\* open_practical_test_booking_page(field_type, call_depth) is called
OpenPracticalTestCall ==
    /\ pagePc \in {"idle", "returned"}
    /\ pagePc' = "pt_entry"
    /\ call_depth' \in 0..(CallDepthCeiling + 1)
    /\ failures' = 0
    /\ relogins' = 0
    /\ escalated' = FALSE
    /\ pageResult' = "none"
    /\ UNCHANGED <<notPage, logged_in, port>>

RevisionCheckSkipped ==
    /\ pagePc = "pt_entry"
    /\ pagePc' = "guard"
    /\ UNCHANGED <<notPage, call_depth, failures, relogins, escalated,
                   pageResult, logged_in, port>>

\* if "REVISION" in self.lesson_name_practical: log and return False
RevisionCheck ==
    /\ pagePc = "pt_entry"
    /\ IF IsRevision(attrs["practical"]["lesson_name"])
       THEN /\ pagePc' = "returned"
            /\ pageResult' = "False"
       ELSE /\ pagePc' = "guard"
            /\ UNCHANGED pageResult
    /\ UNCHANGED <<notPage, call_depth, failures, relogins, escalated,
                   logged_in, port>>

\* _open_index("NewPortal/Booking/BookingPT.aspx"), the last statement of the
\* function: it raises, or the function returns None
OpenIndexPT ==
    /\ pagePc = "open"
    /\ pagePc' = "returned"
    /\ pageResult' \in {"None", "raised"}
    /\ UNCHANGED <<notPage, call_depth, failures, relogins, escalated,
                   logged_in, port>>

\* a logged-in handler whose dashboard read stored some lesson name
InitTest ==
    /\ OneConfig
    /\ OrchIdle
    /\ logged_in = TRUE
    /\ port \in DigitGroups
    /\ current_url = NoUrl
    /\ loginPc = "idle"
    /\ max_login_attempts = DefaultMaxLoginAttempts
    /\ current_attempt = 1
    /\ attempts = 0
    /\ loginResult = "none"
    /\ PageIdle
    /\ \E n \in LessonNames :
          attrs = [InitialAttrs EXCEPT !["practical"]["lesson_name"] = n]
    /\ flags = InitialFlags
    /\ notification_update_msg = ""
    /\ writes = 0
    /\ lastOp = [op |-> "__init__", field_type |-> "", dirty |-> FALSE]
    /\ DiffIdle
    /\ EarliestIdle
    /\ WorkIdle
    /\ DiscordIdle
    /\ DashboardIdle
    /\ OverviewIdle
    /\ LogIdle

NextTest ==
    \/ OpenPracticalTestCall
    \/ RevisionCheck
    \/ CheckCallDepth
    \/ OpenIndexPT

SpecTest == InitTest /\ [][NextTest]_vars

\* C26: with a lesson name of the revision stage the call returns False
\* from its first statement, whatever call_depth it was given: the guard
\* does not run, the page is not opened, nobody is logged out or in.
C26_RevisionShortCircuits ==
    /\ [](IsRevision(attrs["practical"]["lesson_name"]) =>
            /\ pagePc \in {"idle", "pt_entry", "returned"}
            /\ pageResult \in {"none", "False"}
            /\ relogins = 0
            /\ ~escalated
            /\ logged_in)
    /\ [][(pagePc = "pt_entry"
              /\ IsRevision(attrs["practical"]["lesson_name"])) =>
            /\ pagePc' = "returned"
            /\ pageResult' = "False"
            /\ UNCHANGED <<logged_in, port, relogins, call_depth>>]_vars

\* a call beyond the ceiling of the guard that was short-circuited
C26_Witness ==
    /\ IsRevision(attrs["practical"]["lesson_name"])
    /\ pagePc = "returned"
    /\ pageResult = "False"
    /\ call_depth > CallDepthCeiling
    /\ relogins = 0

(***************************************************************************)
(* CDCAbstract attributes and handler.reset_state (SpecSession)            *)
(***************************************************************************)

notSession == <<orchVars, logVars, discVars, dashVars, ovVars, loginVars, pageVars, diffVars, earlVars,
                workVars>>

\* values the setters are called with, one empty and one not per attribute
AttrValues(attribute) ==
    IF attribute \in StrAttributes THEN {"", "Class 3A Motorcar"}
    ELSE IF attribute = "days_in_view" THEN {<<>>, <<"12/May/2025">>}
    ELSE IF attribute = "times_in_view" THEN {<<>>, <<"09:00 - 10:00">>}
    ELSE {<<>>, [d \in {"12/May/2025"} |-> <<"09:00 - 10:00">>]}

\* the flags reset_attributes_with_fieldtype sets for a field type
FlagsOf(field_type) ==
    IF field_type = "practical"
    THEN {"can_book_next_practical", "has_auto_reserved_practical"}
    ELSE {"can_book_next_pt"}

\* some attribute of the field type, other than the cache, differs from its
\* freshly created value, or one of the field type's flags does
Dirty(field_type) ==
    \/ \E at \in Attributes \ {"cached_earlier_sessions"} :
          attrs[field_type][at] # ZeroValue(at)
    \/ \E f \in FlagsOf(field_type) : flags[f] # InitialFlags[f]

whitelisted_attributes_none == {}

\* reset_attributes_with_fieldtype: attributes to preserve during reset
whitelisted_attributes == {"cached_earlier_sessions"}

\* reset_attributes_with_fieldtype, on the attributes: every template not
\* whitelisted is set to attribute_template[1]()
ResetAttrs(A, field_type) ==
    [A EXCEPT ![field_type] =
        [at \in Attributes |->
            IF at \in whitelisted_attributes THEN A[field_type][at]
            ELSE ZeroValue(at)]]

\* ResetFlags leaving has_auto_reserved_practical as it is
ResetFlagsKeepsReserved(F, field_type) ==
    LET F1 == IF field_type = "practical"
              THEN [F EXCEPT !["can_book_next_practical"] = TRUE]
              ELSE F
    IN  IF field_type = "pt"
        THEN [F1 EXCEPT !["can_book_next_pt"] = TRUE]
        ELSE F1

\* ResetFlags resetting the flags of both field types
ResetFlagsOfAll(F, field_type) == InitialFlags

\* reset_attributes_with_fieldtype, on the flags
ResetFlags(F, field_type) ==
    LET F1 == IF field_type = "practical"
              THEN [F EXCEPT !["can_book_next_practical"] = TRUE,
                             !["has_auto_reserved_practical"] = FALSE]
              ELSE F
    IN  IF field_type = "pt"
        THEN [F1 EXCEPT !["can_book_next_pt"] = TRUE]
        ELSE F1

\* set_attribute_with_fieldtype(attribute, field_type, value)
SetAttributeWithFieldtype ==
    /\ writes < MaxWrites
    /\ \E ft \in FieldTypes, at \in Attributes :
        \E v \in AttrValues(at) :
            /\ attrs' = [attrs EXCEPT ![ft][at] = v]
            /\ lastOp' = [op |-> "set_attribute_with_fieldtype",
                          field_type |-> ft, dirty |-> FALSE]
    /\ writes' = writes + 1
    /\ UNCHANGED <<notSession, flags, notification_update_msg>>

\* set_attribute(attribute, value), on a flag
SetAttribute ==
    /\ writes < MaxWrites
    /\ \E f \in FlagNames, v \in BOOLEAN :
        flags' = [flags EXCEPT ![f] = v]
    /\ writes' = writes + 1
    /\ lastOp' = [op |-> "set_attribute", field_type |-> "", dirty |-> FALSE]
    /\ UNCHANGED <<notSession, attrs, notification_update_msg>>

\* set_attribute("notification_update_msg", value)
SetNotificationUpdateMsg ==
    /\ writes < MaxWrites
    /\ notification_update_msg' = "Earlier slot found"
    /\ writes' = writes + 1
    /\ lastOp' = [op |-> "set_attribute", field_type |-> "", dirty |-> FALSE]
    /\ UNCHANGED <<notSession, attrs, flags>>

\* reset_attributes_with_fieldtype(field_type)
ResetAttributesWithFieldtype ==
    /\ \E ft \in FieldTypes :
        /\ attrs' = ResetAttrs(attrs, ft)
        /\ flags' = ResetFlags(flags, ft)
        /\ lastOp' = [op |-> "reset_attributes_with_fieldtype",
                      field_type |-> ft, dirty |-> Dirty(ft)]
    /\ UNCHANGED <<notSession, notification_update_msg, writes>>

\* reset_state: reset_attributes_for_all_fieldtypes (PRACTICAL, then PT),
\* then notification_update_msg and has_slots_reserved
ResetState ==
    /\ attrs' = ResetAttrs(ResetAttrs(attrs, "practical"), "pt")
    /\ flags' = [ResetFlags(ResetFlags(flags, "practical"), "pt")
                    EXCEPT !["has_slots_reserved"] = FALSE]
    /\ notification_update_msg' = ""
    /\ lastOp' = [op |-> "reset_state", field_type |-> "",
                  dirty |-> \A ft \in FieldTypes : Dirty(ft)]
    /\ UNCHANGED <<notSession, writes>>

InitSession ==
    /\ OneConfig
    /\ OrchIdle
    /\ LoginIdle
    /\ PageIdle
    /\ SessionFresh
    /\ DiffIdle
    /\ EarliestIdle
    /\ WorkIdle
    /\ DiscordIdle
    /\ DashboardIdle
    /\ OverviewIdle
    /\ LogIdle

NextSession ==
    \/ SetAttributeWithFieldtype
    \/ SetAttribute
    \/ SetNotificationUpdateMsg
    \/ ResetAttributesWithFieldtype
    \/ ResetState

SpecSession == InitSession /\ [][NextSession]_vars

\* the field types a step has just reset
JustReset ==
    IF lastOp'.op = "reset_state" THEN FieldTypes
    ELSE IF lastOp'.op = "reset_attributes_with_fieldtype"
         THEN {lastOp'.field_type}
         ELSE {}

\* C6: after reset_attributes_with_fieldtype(c), and for every c after
\* reset_state, every attribute of c other than cached_earlier_sessions has
\* its freshly created value, the flags of c have theirs, and
\* cached_earlier_sessions of c has the value it had before the reset.
C6_ResetKeepsOnlyCache ==
    [][\A c \in JustReset :
        /\ \A at \in Attributes \ {"cached_earlier_sessions"} :
              attrs'[c][at] = ZeroValue(at)
        /\ \A f \in FlagsOf(c) : flags'[f] = InitialFlags[f]
        /\ attrs'[c]["cached_earlier_sessions"] =
              attrs[c]["cached_earlier_sessions"]]_vars

\* a reset of practical found fields and flags changed and a cache filled
C6_Witness ==
    /\ lastOp.op = "reset_attributes_with_fieldtype"
    /\ lastOp.field_type = "practical"
    /\ lastOp.dirty
    /\ attrs["practical"]["cached_earlier_sessions"] # <<>>
    /\ attrs["practical"]["available_sessions"] = <<>>

\* C40: reset_attributes_with_fieldtype(c) and
\* set_attribute_with_fieldtype(_, c, _) change no attribute and no flag of a
\* field type other than c, nor has_slots_reserved; so a reset of pt leaves
\* has_auto_reserved_practical and can_book_next_practical as they are.
C40_PartitionedByFieldType ==
    [][lastOp'.op \in {"reset_attributes_with_fieldtype",
                       "set_attribute_with_fieldtype"} =>
        /\ \A ft \in FieldTypes \ {lastOp'.field_type} :
              /\ attrs'[ft] = attrs[ft]
              /\ \A f \in FlagsOf(ft) : flags'[f] = flags[f]
        /\ flags'["has_slots_reserved"] = flags["has_slots_reserved"]
        /\ notification_update_msg' = notification_update_msg]_vars

\* a reset of pt, which had something to reset, has left a filled attribute
\* and a set has_auto_reserved_practical of practical in place
C40_Witness ==
    /\ lastOp.op = "reset_attributes_with_fieldtype"
    /\ lastOp.field_type = "pt"
    /\ lastOp.dirty
    /\ attrs["practical"]["available_sessions"] # <<>>
    /\ flags["has_auto_reserved_practical"]
    /\ attrs["pt"]["available_sessions"] = <<>>

(***************************************************************************)
(* handler.check_if_same_sessions (SpecDiff)                               *)
(***************************************************************************)

notDiff == <<orchVars, logVars, discVars, dashVars, ovVars, loginVars, pageVars, sessVars, earlVars, workVars>>

\* set(time_slots)
SetOf(time_slots) == {time_slots[i] : i \in DOMAIN time_slots}

\* session1.get(date_str, [])
GetOrEmpty(session, date_str) ==
    IF date_str \in DOMAIN session THEN session[date_str] ELSE <<>>

check_if_same_sessions_ordered(s0, s1) ==
    IF DOMAIN s0 # DOMAIN s1 THEN TRUE
    ELSE \E date_str \in DOMAIN s0 : s0[date_str] # GetOrEmpty(s1, date_str)

check_if_same_sessions_no_keys(s0, s1) ==
    \E date_str \in DOMAIN s0 :
        SetOf(s0[date_str]) # SetOf(GetOrEmpty(s1, date_str))

\* check_if_same_sessions: True when the key sets differ, True when for some
\* date of session0 the sets of time slots differ, False otherwise
check_if_same_sessions(s0, s1) ==
    IF DOMAIN s0 # DOMAIN s1 THEN TRUE
    ELSE \E date_str \in DOMAIN s0 :
            SetOf(s0[date_str]) # SetOf(GetOrEmpty(s1, date_str))

\* a call check_if_same_sessions(session0, session1)
CheckIfSameSessions ==
    /\ diffResult.op = "none"
    /\ diffResult' = [op |-> "check_if_same_sessions",
                      value |-> check_if_same_sessions(session0, session1)]
    /\ UNCHANGED <<notDiff, session0, session1>>

\* the calls check_if_same_sessions(session1, session0) and
\* check_if_same_sessions(session0, session0), after the first one
CheckIfSameSessionsAgain ==
    /\ diffResult.op = "check_if_same_sessions"
    /\ diffResult' = [op |-> "again",
                      value |-> diffResult.value,
                      reversed |-> check_if_same_sessions(session1, session0),
                      self |-> check_if_same_sessions(session0, session0)]
    /\ UNCHANGED <<notDiff, session0, session1>>

\* any two sessions dicts are the arguments
InitDiff ==
    /\ OneConfig
    /\ OrchIdle
    /\ LoginIdle
    /\ PageIdle
    /\ SessionFresh
    /\ session0 \in Sessions
    /\ session1 \in Sessions
    /\ diffResult = [op |-> "none", value |-> FALSE]
    /\ EarliestIdle
    /\ WorkIdle
    /\ DiscordIdle
    /\ DashboardIdle
    /\ OverviewIdle
    /\ LogIdle

NextDiff ==
    \/ CheckIfSameSessions
    \/ CheckIfSameSessionsAgain

SpecDiff == InitDiff /\ [][NextDiff]_vars

\* C10: check_if_same_sessions returns False exactly when the two dicts have
\* the same dates and, on every date, the same set of time-range labels, in
\* whatever order the lists hold them; otherwise it returns True.
C10_IdenticalIffSameSets ==
    diffResult.op = "check_if_same_sessions" =>
        /\ diffResult.value \in BOOLEAN
        /\ diffResult.value = FALSE <=>
            /\ DOMAIN session0 = DOMAIN session1
            /\ \A d \in DOMAIN session0 :
                \A t \in TimeSlots :
                    (\E i \in 1..Len(session0[d]) : session0[d][i] = t) <=>
                    (\E j \in 1..Len(session1[d]) : session1[d][j] = t)

\* two dicts whose lists differ in order are reported identical
C10_Witness ==
    /\ diffResult.op = "check_if_same_sessions"
    /\ diffResult.value = FALSE
    /\ DOMAIN session0 = Dates
    /\ \E d \in Dates :
        /\ Len(session0[d]) = 2
        /\ Len(session1[d]) = 2
        /\ session0[d][1] # session0[d][2]
        /\ session0[d] # session1[d]

\* C11: check_if_same_sessions gives the same verdict with its arguments
\* exchanged, and reports a dict identical to itself.
C11_SymmetricReflexive ==
    diffResult.op = "again" =>
        /\ diffResult.reversed = diffResult.value
        /\ diffResult.self = FALSE

\* the three calls were made on dicts with different dates
C11_Witness ==
    /\ diffResult.op = "again"
    /\ diffResult.value = TRUE
    /\ DOMAIN session0 = {}
    /\ DOMAIN session1 = Dates

(***************************************************************************)
(* convert_to_datetime and handler.get_earliest_time_slots (SpecEarliest)  *)
(***************************************************************************)

notEarliest == <<orchVars, logVars, discVars, dashVars, ovVars, loginVars, pageVars, sessVars, diffVars, workVars>>

\* date and time labels a booking page can hand over, among them a date that
\* is not a day of the calendar and a time label without a start time
DateLabels == Dates \cup {"31/Feb/2025"}

TimeLabels == TimeSlots \cup {"TBA"}

\* the result of a strptime that raises ValueError
ValueError == -1

\* strptime '%d/%b/%Y': the fields of a date label
DateFields(date_str) ==
    CASE date_str = "12/May/2025" -> [d |-> 12, b |-> "May", Y |-> 2025]
      [] date_str = "15/May/2025" -> [d |-> 15, b |-> "May", Y |-> 2025]
      [] date_str = "31/Feb/2025" -> [d |-> 31, b |-> "Feb", Y |-> 2025]

\* strptime '%b'
MonthOf(b) == CASE b = "Feb" -> 2 [] b = "May" -> 5

\* the days of a month, as datetime checks them
DaysIn(month, year) ==
    IF month = 2
    THEN IF year % 4 = 0 /\ (year % 100 # 0 \/ year % 400 = 0) THEN 29 ELSE 28
    ELSE IF month \in {4, 6, 9, 11} THEN 30 ELSE 31

\* time_str.split(' ')[0]
FirstToken(time_str) ==
    CASE time_str = "09:00 - 10:00" -> "09:00"
      [] time_str = "11:00 - 12:00" -> "11:00"
      [] time_str = "TBA" -> "TBA"

\* strptime '%H:%M': the minute of the day
HourMinute(token) ==
    CASE token = "09:00" -> 9 * 60
      [] token = "11:00" -> 11 * 60
      [] OTHER -> ValueError

\* convert_to_datetime(date_str, time_str) for a non-empty time_str: the
\* datetime as a number of minutes, or ValueError
convert_to_datetime(date_str, time_str) ==
    LET f == DateFields(date_str)
        month == MonthOf(f.b)
        minute == HourMinute(FirstToken(time_str))
    IN  IF f.d < 1 \/ f.d > DaysIn(month, f.Y) \/ minute = ValueError
        THEN ValueError
        ELSE ((f.Y * 12 + month) * 31 + f.d) * 1440 + minute

\* the sort key of get_earliest_time_slots
SortKey(comp_date) == convert_to_datetime(comp_date[1], comp_date[2])

\* [(date_str, time_slot) for date_str, time_slots in sessions_data.items()
\*                        for time_slot in time_slots]
RECURSIVE Flatten(_)
Flatten(items) ==
    IF items = <<>> THEN <<>>
    ELSE [i \in 1..Len(Head(items)[2]) |->
             <<Head(items)[1], Head(items)[2][i]>>] \o Flatten(Tail(items))

\* list.sort(key=...): stable, an element goes after those whose key is not
\* greater than its own
RECURSIVE SortStable(_)
SortStable(pairs) ==
    IF pairs = <<>> THEN <<>>
    ELSE LET n == Len(pairs)
             x == pairs[n]
             sorted == SortStable(SubSeq(pairs, 1, n - 1))
             pos == Cardinality({i \in 1..Len(sorted) :
                                    SortKey(sorted[i]) <= SortKey(x)})
         IN  SubSeq(sorted, 1, pos) \o <<x>>
                 \o SubSeq(sorted, pos + 1, Len(sorted))

\* if selected_date_str not in return_sessions_data: ... else: ...append(...)
Put(items, date_str, time_slot) ==
    IF \E i \in DOMAIN items : items[i][1] = date_str
    THEN LET i == CHOOSE j \in DOMAIN items : items[j][1] = date_str
         IN  [items EXCEPT ![i] = <<date_str, Append(items[i][2], time_slot)>>]
    ELSE Append(items, <<date_str, <<time_slot>>>>)

\* the loop that builds return_sessions_data from the selected pairs
RECURSIVE Reassemble(_)
Reassemble(selected) ==
    IF selected = <<>> THEN <<>>
    ELSE LET n == Len(selected)
         IN  Put(Reassemble(SubSeq(selected, 1, n - 1)),
                 selected[n][1], selected[n][2])

Min(a, b) == IF a < b THEN a ELSE b

\* get_earliest_time_slots(sessions_data, length, field_type), step = 1; the
\* sort computes the key of every pair, so one ValueError ends the call
get_earliest_time_slots(data, n) ==
    LET flat == Flatten(data)
    IN  IF \E i \in DOMAIN flat : SortKey(flat[i]) = ValueError
        THEN [raised |-> TRUE, value |-> <<>>]
        ELSE [raised |-> FALSE,
              value |-> Reassemble(SubSeq(SortStable(flat), 1,
                                          Min(n, Len(flat))))]

\* the dicts given to the function: up to MaxEntries slots in all, the slots
\* of a date together
FlatInputs == UNION {[1..k -> DateLabels \X TimeLabels] : k \in 0..MaxEntries}

Contiguous(f) ==
    \A i, j, k \in DOMAIN f :
        (i < j /\ j < k /\ f[i][1] = f[k][1]) => f[j][1] = f[i][1]

SessionsData == {Reassemble(f) : f \in {g \in FlatInputs : Contiguous(g)}}

\* a call get_earliest_time_slots(sessions_data, length)
GetEarliestTimeSlots ==
    /\ earlPc = "idle"
    /\ first' = get_earliest_time_slots(sessions_data, length)
    /\ earlPc' = "once"
    /\ UNCHANGED <<notEarliest, sessions_data, length, length2, second>>

\* the function applied to what it returned, with length2 >= length
GetEarliestTimeSlotsAgain ==
    /\ earlPc = "once"
    /\ ~first.raised
    /\ second' = get_earliest_time_slots(first.value, length2)
    /\ earlPc' = "twice"
    /\ UNCHANGED <<notEarliest, sessions_data, length, length2, first>>

InitEarliest ==
    /\ OneConfig
    /\ OrchIdle
    /\ LoginIdle
    /\ PageIdle
    /\ SessionFresh
    /\ DiffIdle
    /\ sessions_data \in SessionsData
    /\ length \in 0..MaxEntries
    /\ length2 \in length..(length + 1)
    /\ earlPc = "idle"
    /\ first = NoOutcome
    /\ second = NoOutcome
    /\ WorkIdle
    /\ DiscordIdle
    /\ DashboardIdle
    /\ OverviewIdle
    /\ LogIdle

NextEarliest ==
    \/ GetEarliestTimeSlots
    \/ GetEarliestTimeSlotsAgain

SpecEarliest == InitEarliest /\ [][NextEarliest]_vars

\* how many times a (date, time) pair occurs in a dict
Occurrences(items, slot) ==
    Cardinality({i \in DOMAIN Flatten(items) : Flatten(items)[i] = slot})

\* r holds at most n slots, all of them slots of c, and none of them is later
\* than a slot of c left out of r
EarliestSelection(c, n, r) ==
    /\ Len(Flatten(r)) <= n
    /\ \A x \in DateLabels \X TimeLabels :
          Occurrences(r, x) <= Occurrences(c, x)
    /\ \A x, y \in DateLabels \X TimeLabels :
          (Occurrences(r, x) > 0 /\ Occurrences(c, y) > Occurrences(r, y))
              => SortKey(x) <= SortKey(y)

\* a dict as a mapping, whatever the order of its keys
AsDict(items) ==
    [date_str \in {items[i][1] : i \in DOMAIN items} |->
        items[CHOOSE i \in DOMAIN items : items[i][1] = date_str][2]]

\* some label of the dict does not parse
HasUnparseable(items) ==
    \E i \in DOMAIN Flatten(items) : SortKey(Flatten(items)[i]) = ValueError

\* the dict without the slots whose labels do not parse
ParseableOnly(items) ==
    LET Parses(x) == SortKey(x) # ValueError
    IN  Reassemble(SelectSeq(Flatten(items), Parses))

\* whenever get_earliest_time_slots returns, it returns an earliest selection
EarliestBoundedWhenReturned ==
    (earlPc # "idle" /\ ~first.raised) =>
        EarliestSelection(sessions_data, length, first.value)

\* whenever get_earliest_time_slots returned, the call on its result returns
\* the same dict
IdempotentWhenReturned ==
    earlPc = "twice" =>
        /\ ~second.raised
        /\ AsDict(second.value) = AsDict(first.value)

\* C12: for every dict c and count n, get_earliest_time_slots(c, n) returns
\* at most n slots, none of them later than a slot of c it left out.
C12_EarliestBounded ==
    earlPc # "idle" =>
        /\ ~first.raised
        /\ EarliestSelection(sessions_data, length, first.value)

\* C13: for every dict c and all m >= n, get_earliest_time_slots applied with
\* m to get_earliest_time_slots(c, n) gives the same dict as
\* get_earliest_time_slots(c, n).
C13_EarliestIdempotent ==
    earlPc # "idle" =>
        /\ ~first.raised
        /\ earlPc = "twice" =>
            /\ ~second.raised
            /\ AsDict(second.value) = AsDict(first.value)

\* C20: a slot whose date or time label does not parse is left out of the
\* sort and of the result, no error is raised, and the slots that do parse
\* are selected as if it were not there.
C20_UnparseableExcluded ==
    (earlPc # "idle" /\ HasUnparseable(sessions_data)) =>
        /\ ~first.raised
        /\ first = get_earliest_time_slots(ParseableOnly(sessions_data),
                                           length)

\* an empty dict gives an empty dict and does not raise; a count of zero gives
\* an empty dict whenever the call returns
EmptyForEmptyInput ==
    earlPc # "idle" =>
        /\ sessions_data = <<>> => (~first.raised /\ first.value = <<>>)
        /\ (length <= 0 /\ ~first.raised) => first.value = <<>>

\* C37: get_earliest_time_slots returns an empty dict, and does not raise,
\* whenever the dict given is empty or the count is zero or less.
C37_EmptyInEmptyOut ==
    (earlPc # "idle" /\ (sessions_data = <<>> \/ length <= 0)) =>
        /\ ~first.raised
        /\ first.value = <<>>

(***************************************************************************)
(* Evaluating step of a category: earlier_sessions (SpecEvaluate)          *)
(***************************************************************************)

notWork == <<orchVars, logVars, discVars, dashVars, ovVars, loginVars, pageVars, diffVars, earlVars>>

\* the chronological keys of the slots of a sessions dict
KeysOf(sessions) ==
    UNION {{SortKey(<<d, sessions[d][i]>>) : i \in DOMAIN sessions[d]} :
              d \in DOMAIN sessions}

compute_earlier_not_strict(available, booked) ==
    [d \in DOMAIN available |->
        LET Earlier(t) == \A k \in KeysOf(booked) : SortKey(<<d, t>>) <= k
        IN  SelectSeq(available[d], Earlier)]

compute_earlier_some_booked(available, booked) ==
    [d \in DOMAIN available |->
        LET Earlier(t) == \/ KeysOf(booked) = {}
                          \/ \E k \in KeysOf(booked) : SortKey(<<d, t>>) < k
        IN  SelectSeq(available[d], Earlier)]

\* computeEarlier: the available slots whose key is strictly less than the
\* key of every booked slot, grouped by date as available_sessions is
compute_earlier(available, booked) ==
    [d \in DOMAIN available |->
        LET Earlier(t) == \A k \in KeysOf(booked) : SortKey(<<d, t>>) < k
        IN  SelectSeq(available[d], Earlier)]

\* a sessions dict with one more slot
AddSlot(sessions, date_str, time_slot) ==
    [d \in DOMAIN sessions \cup {date_str} |->
        IF d \in DOMAIN sessions
        THEN IF d = date_str THEN Append(sessions[d], time_slot)
             ELSE sessions[d]
        ELSE <<time_slot>>]

\* Evaluating: earlier_sessions of the category is computed from its
\* available_sessions and booked_sessions
ComputeEarlier ==
    /\ evalPc \in {"idle", "added"}
    /\ evalPc' = IF evalPc = "idle" THEN "computed" ELSE "recomputed"
    /\ attrs' = [attrs EXCEPT ![evalType]["earlier_sessions"] =
                    compute_earlier(attrs[evalType]["available_sessions"],
                                    attrs[evalType]["booked_sessions"])]
    /\ UNCHANGED <<notWork, flags, notification_update_msg, writes, lastOp,
                   evalType, earlier_before, emitted, polls, auto_reserve,
                   handled>>

\* booked_sessions of the category gets one more slot, available_sessions
\* staying as it is
AddBookedSlot ==
    /\ evalPc = "computed"
    /\ evalPc' = "added"
    /\ earlier_before' = attrs[evalType]["earlier_sessions"]
    /\ \E d \in Dates, t \in TimeSlots :
        attrs' = [attrs EXCEPT ![evalType]["booked_sessions"] =
                     AddSlot(@, d, t)]
    /\ UNCHANGED <<notWork, flags, notification_update_msg, writes, lastOp,
                   evalType, emitted, polls, auto_reserve, handled>>

\* any available_sessions and booked_sessions of either category
InitEvaluate ==
    /\ OneConfig
    /\ OrchIdle
    /\ LoginIdle
    /\ PageIdle
    /\ DiffIdle
    /\ EarliestIdle
    /\ evalPc = "idle"
    /\ evalType \in FieldTypes
    /\ earlier_before = <<>>
    /\ emitted = 0
    /\ polls = 0
    /\ auto_reserve = FALSE
    /\ handled = NotHandled
    /\ attrs \in {[InitialAttrs EXCEPT ![evalType]["available_sessions"] = a,
                                       ![evalType]["booked_sessions"] = b] :
                     a \in Sessions, b \in Sessions}
    /\ flags = InitialFlags
    /\ notification_update_msg = ""
    /\ writes = 0
    /\ lastOp = [op |-> "__init__", field_type |-> "", dirty |-> FALSE]
    /\ DiscordIdle
    /\ DashboardIdle
    /\ OverviewIdle
    /\ LogIdle

NextEvaluate ==
    \/ ComputeEarlier
    \/ AddBookedSlot

SpecEvaluate == InitEvaluate /\ [][NextEvaluate]_vars

\* how many times a slot occurs in a sessions dict
SlotCount(sessions, d, t) ==
    IF d \in DOMAIN sessions
    THEN Cardinality({i \in DOMAIN sessions[d] : sessions[d][i] = t})
    ELSE 0

\* the dict holds at least one slot
HasSlots(sessions) == \E d \in DOMAIN sessions : Len(sessions[d]) > 0

\* C14: after the Evaluating step earlier_sessions holds exactly the available
\* slots whose key is strictly less than the key of every booked slot; with
\* no booked slot it equals available_sessions; it is a sub-collection of
\* available_sessions, and nothing but the evaluation writes it.
C14_EarlierExact ==
    /\ [](evalPc \in {"computed", "recomputed"} =>
            LET available == attrs[evalType]["available_sessions"]
                booked == attrs[evalType]["booked_sessions"]
                earlier == attrs[evalType]["earlier_sessions"]
            IN  /\ \A d \in Dates, t \in TimeSlots :
                     SlotCount(earlier, d, t) =
                        IF \A bd \in DOMAIN booked :
                              \A i \in DOMAIN booked[bd] :
                                 SortKey(<<d, t>>) < SortKey(<<bd, booked[bd][i]>>)
                        THEN SlotCount(available, d, t)
                        ELSE 0
                /\ ~HasSlots(booked) => earlier = available
                /\ \A d \in Dates, t \in TimeSlots :
                     SlotCount(earlier, d, t) <= SlotCount(available, d, t))
    /\ [][\A ft \in FieldTypes :
            attrs'[ft]["earlier_sessions"] # attrs[ft]["earlier_sessions"] =>
                /\ evalPc \in {"idle", "added"}
                /\ attrs'[ft]["available_sessions"] =
                      attrs[ft]["available_sessions"]
                /\ attrs'[ft]["booked_sessions"] = attrs[ft]["booked_sessions"]
          ]_vars

\* an evaluation that kept some available slots and dropped others
C14_Witness ==
    /\ evalPc = "computed"
    /\ HasSlots(attrs[evalType]["booked_sessions"])
    /\ HasSlots(attrs[evalType]["earlier_sessions"])
    /\ \E d \in Dates, t \in TimeSlots :
         /\ SlotCount(attrs[evalType]["available_sessions"], d, t) > 0
         /\ SlotCount(attrs[evalType]["booked_sessions"], d, t) > 0

\* C15: with available_sessions fixed, earlier_sessions computed after a
\* slot was added to booked_sessions is a sub-collection of the one computed
\* before.
C15_MonotonicInBooked ==
    evalPc = "recomputed" =>
        \A d \in Dates, t \in TimeSlots :
            SlotCount(attrs[evalType]["earlier_sessions"], d, t) <=
                SlotCount(earlier_before, d, t)

\* the added booked slot made earlier_sessions lose slots but not all
C15_Witness ==
    /\ evalPc = "recomputed"
    /\ HasSlots(attrs[evalType]["earlier_sessions"])
    /\ \E d \in Dates, t \in TimeSlots :
         SlotCount(attrs[evalType]["earlier_sessions"], d, t) <
             SlotCount(earlier_before, d, t)

(***************************************************************************)
(* Booking decision workflow of a category, poll after poll (SpecPoll)     *)
(***************************************************************************)

\* what a poll reads from the booking pages: up to one slot per date
\* available, up to one slot booked
PolledAvailable == {a \in Sessions : \A d \in DOMAIN a : Len(a[d]) <= 1}

PolledBooked ==
    {<<>>} \cup {[x \in {d} |-> <<t>>] : d \in Dates, t \in TimeSlots}

\* canBookNext of the category
CanBookNextFlag(field_type) ==
    IF field_type = "practical" THEN "can_book_next_practical"
    ELSE "can_book_next_pt"

\* hasAutoReserved of the category; there is no such flag for pt
HasAutoReserved(field_type) ==
    field_type = "practical" /\ flags["has_auto_reserved_practical"]

\* Idle -> Refreshing: the poll replaces available_sessions and
\* booked_sessions and the eligibility flag with what the pages show
Refresh ==
    /\ evalPc = "idle"
    /\ polls < MaxPolls
    /\ evalPc' = "refreshed"
    /\ emitted' = 0
    /\ handled' = [present |-> "none", previous |-> handled.present]
    /\ \E a \in PolledAvailable, b \in PolledBooked :
        attrs' = [attrs EXCEPT ![evalType]["available_sessions"] = a,
                               ![evalType]["booked_sessions"] = b]
    /\ \E eligible \in BOOLEAN :
        flags' = [flags EXCEPT ![CanBookNextFlag(evalType)] = eligible]
    /\ UNCHANGED <<notWork, notification_update_msg, writes, lastOp, evalType,
                   earlier_before, polls, auto_reserve>>

\* Evaluate emitting the notification-only event without recording in
\* cached_earlier_sessions what was notified
EvaluateWithoutCaching ==
    /\ evalPc = "refreshed"
    /\ LET earlier == compute_earlier(attrs[evalType]["available_sessions"],
                                      attrs[evalType]["booked_sessions"])
           cached == attrs[evalType]["cached_earlier_sessions"]
           evaluated == [attrs EXCEPT ![evalType]["earlier_sessions"] = earlier]
       IN  IF ~HasSlots(earlier)
           THEN /\ attrs' = [evaluated EXCEPT
                                ![evalType]["cached_earlier_sessions"] = <<>>]
                /\ evalPc' = "standby"
                /\ handled' = [handled EXCEPT !.present = "empty"]
                /\ UNCHANGED emitted
           ELSE IF ~check_if_same_sessions(earlier, cached)
           THEN /\ attrs' = evaluated
                /\ evalPc' = "standby"
                /\ handled' = [handled EXCEPT !.present = "unchanged"]
                /\ UNCHANGED emitted
           ELSE IF /\ auto_reserve
                   /\ flags[CanBookNextFlag(evalType)]
                   /\ ~HasAutoReserved(evalType)
           THEN /\ attrs' = evaluated
                /\ evalPc' = "reserving"
                /\ UNCHANGED <<emitted, handled>>
           ELSE /\ attrs' = evaluated
                /\ emitted' = emitted + 1
                /\ evalPc' = "standby"
                /\ handled' = [handled EXCEPT !.present = "notified"]
    /\ UNCHANGED <<notWork, flags, notification_update_msg, writes, lastOp,
                   evalType, earlier_before, polls, auto_reserve>>

\* Refreshing -> Evaluating: earlier_sessions is computed and compared with
\* cached_earlier_sessions by check_if_same_sessions; an empty result clears
\* the cache, an unchanged one does nothing, a changed one is reserved or
\* notified; a notified result is the cached one from then on ("already
\* notified/handled this state")
Evaluate ==
    /\ evalPc = "refreshed"
    /\ LET earlier == compute_earlier(attrs[evalType]["available_sessions"],
                                      attrs[evalType]["booked_sessions"])
           cached == attrs[evalType]["cached_earlier_sessions"]
           evaluated == [attrs EXCEPT ![evalType]["earlier_sessions"] = earlier]
       IN  IF ~HasSlots(earlier)
           THEN /\ attrs' = [evaluated EXCEPT
                                ![evalType]["cached_earlier_sessions"] = <<>>]
                /\ evalPc' = "standby"
                /\ handled' = [handled EXCEPT !.present = "empty"]
                /\ UNCHANGED emitted
           ELSE IF ~check_if_same_sessions(earlier, cached)
           THEN /\ attrs' = evaluated
                /\ evalPc' = "standby"
                /\ handled' = [handled EXCEPT !.present = "unchanged"]
                /\ UNCHANGED emitted
           ELSE IF /\ auto_reserve
                   /\ flags[CanBookNextFlag(evalType)]
                   /\ ~HasAutoReserved(evalType)
           THEN /\ attrs' = evaluated
                /\ evalPc' = "reserving"
                /\ UNCHANGED <<emitted, handled>>
           ELSE /\ attrs' = [evaluated EXCEPT
                                ![evalType]["cached_earlier_sessions"] = earlier]
                /\ emitted' = emitted + 1
                /\ evalPc' = "standby"
                /\ handled' = [handled EXCEPT !.present = "notified"]
    /\ UNCHANGED <<notWork, flags, notification_update_msg, writes, lastOp,
                   evalType, earlier_before, polls, auto_reserve>>

\* Reserving: on success the flag is set, a booking alert is emitted and
\* cached_earlier_sessions becomes earlier_sessions; on failure an error
\* notification is emitted and nothing else changes
Reserve ==
    /\ evalPc = "reserving"
    /\ evalPc' = "standby"
    /\ emitted' = emitted + 1
    /\ \E ok \in BOOLEAN :
        IF ok
        THEN /\ attrs' = [attrs EXCEPT
                             ![evalType]["cached_earlier_sessions"] =
                                 attrs[evalType]["earlier_sessions"]]
             /\ flags' = IF evalType = "practical"
                         THEN [flags EXCEPT
                                  !["has_auto_reserved_practical"] = TRUE]
                         ELSE flags
             /\ handled' = [handled EXCEPT !.present = "reserved"]
        ELSE /\ handled' = [handled EXCEPT !.present = "reserve_failed"]
             /\ UNCHANGED <<attrs, flags>>
    /\ UNCHANGED <<notWork, notification_update_msg, writes, lastOp, evalType,
                   earlier_before, polls, auto_reserve>>

\* Standby -> Cycled: the category is reset, cached_earlier_sessions kept
Cycle ==
    /\ evalPc = "standby"
    /\ evalPc' = "idle"
    /\ polls' = polls + 1
    /\ earlier_before' = attrs[evalType]["earlier_sessions"]
    /\ attrs' = ResetAttrs(attrs, evalType)
    /\ flags' = ResetFlags(flags, evalType)
    /\ lastOp' = [op |-> "reset_attributes_with_fieldtype",
                  field_type |-> evalType, dirty |-> Dirty(evalType)]
    /\ UNCHANGED <<notWork, notification_update_msg, writes, evalType, emitted,
                   auto_reserve, handled>>

InitPoll ==
    /\ OneConfig
    /\ OrchIdle
    /\ LoginIdle
    /\ PageIdle
    /\ SessionFresh
    /\ DiffIdle
    /\ EarliestIdle
    /\ evalPc = "idle"
    /\ evalType \in FieldTypes
    /\ earlier_before = <<>>
    /\ emitted = 0
    /\ polls = 0
    /\ auto_reserve \in BOOLEAN
    /\ handled = NotHandled
    /\ DiscordIdle
    /\ DashboardIdle
    /\ OverviewIdle
    /\ LogIdle

NextPoll ==
    \/ Refresh
    \/ Evaluate
    \/ Reserve
    \/ Cycle

SpecPoll == InitPoll /\ [][NextPoll]_vars

\* the poll now in Standby computed the same non-empty earlier_sessions as
\* the poll before it
SameEarlierAgain ==
    /\ evalPc = "standby"
    /\ polls >= 1
    /\ HasSlots(attrs[evalType]["earlier_sessions"])
    /\ attrs[evalType]["earlier_sessions"] = earlier_before

notDisc == <<orchVars, logVars, dashVars, ovVars, loginVars, pageVars, sessVars, diffVars, earlVars,
             workVars>>

\* what one requests.post can do: answer 2xx, answer 4xx / 5xx, answer 429
\* with a readable or an unreadable body, or raise
Responses == {"ok", "error", "rate_limited", "rate_limited_bad_body",
              "exception"}

\* a frame of send_notification (retry always) or of _send_to_webhook; pc is
\* "post", "repost", or the log call the frame is in: "log_warning" (lines
\* 83 / 128) and "log_failed" (94 / 139) inside the try block, "log_error"
\* (100 / 145) in the except clause
Frame(fn, retry) == [fn |-> fn, retry |-> retry, pc |-> "post"]

Top(st) == st[Len(st)]

Rest(st) == SubSeq(st, 1, Len(st) - 1)

SetTopPc(st, p) == [st EXCEPT ![Len(st)].pc = p]

RECURSIVE ReturnFrom(_, _)
\* the top frame returns value: the log call of the frame below, which led
\* to it through Log -> send_log, returns too, and that frame goes on
ReturnFrom(st, value) ==
    IF Rest(st) = <<>>
    THEN [stack |-> <<>>, result |-> value]
    ELSE IF Top(Rest(st)).pc = "log_warning"
         THEN [stack |-> SetTopPc(Rest(st), "repost"), result |-> "running"]
         ELSE ReturnFrom(Rest(st), "False")

RECURSIVE RaiseFrom(_)
\* an exception leaves the top frame: a frame below whose log call is inside
\* its try block catches it, a frame whose log call is in its except clause
\* lets it through
RaiseFrom(st) ==
    IF Rest(st) = <<>>
    THEN [stack |-> <<>>, result |-> "raised"]
    ELSE IF Top(Rest(st)).pc \in {"log_warning", "log_failed"}
         THEN [stack |-> SetTopPc(Rest(st), "log_error"),
               result |-> "running"]
         ELSE RaiseFrom(Rest(st))

\* send_notification(title, msg) or _send_to_webhook(url, payload, retry)
\* is called: if not self.enabled: return False
SendCall ==
    /\ dResult # "running"
    /\ \E fn \in {"send_notification", "_send_to_webhook"}, retry \in BOOLEAN :
        /\ fn = "send_notification" => retry
        /\ IF dm_enabled
           THEN /\ stack' = <<Frame(fn, retry)>>
                /\ dResult' = "running"
           ELSE /\ stack' = <<>>
                /\ dResult' = "False"
    /\ posts' = 0
    /\ resends' = 0
    /\ UNCHANGED <<notDisc, dm_enabled, forward_logs>>

\* where the frame goes after requests.post answered r: lines 81-97 and
\* 126-142
Posted(f, r) ==
    CASE r = "ok" -> "return"
      [] r = "exception" -> "log_error"
      [] r \in {"rate_limited", "rate_limited_bad_body"}
            /\ f.pc = "post" /\ f.retry ->
                IF r = "rate_limited" THEN "log_warning" ELSE "log_error"
      [] OTHER -> "log_failed"

\* requests.post of the top frame
Post ==
    /\ dResult = "running"
    /\ Top(stack).pc \in {"post", "repost"}
    /\ \E r \in Responses :
        LET to == Posted(Top(stack), r)
            after == IF to = "return"
                     THEN ReturnFrom(stack, "True")
                     ELSE [stack |-> SetTopPc(stack, to),
                           result |-> "running"]
        IN /\ stack' = after.stack
           /\ dResult' = after.result
    /\ posts' = Min(posts + 1, MaxPosts)
    /\ resends' = IF Len(stack) = 1 /\ Top(stack).pc = "repost"
                  THEN resends + 1 ELSE resends
    /\ UNCHANGED <<notDisc, dm_enabled, forward_logs>>

\* self.log.warning / self.log.error of the top frame. Log.append_stack_if
\* writes the record and, when a notification manager was set on the Log,
\* calls send_log_to_discord -> send_log -> _send_to_webhook(retry False): a
\* new frame, or RecursionError when the interpreter's limit is reached
LogCall ==
    /\ dResult = "running"
    /\ Top(stack).pc \in {"log_warning", "log_failed", "log_error"}
    /\ LET after ==
            IF ~forward_logs
            THEN IF Top(stack).pc = "log_warning"
                 THEN [stack |-> SetTopPc(stack, "repost"),
                       result |-> "running"]
                 ELSE ReturnFrom(stack, "False")
            ELSE IF Len(stack) < RecursionLimit
                 THEN [stack |-> Append(stack,
                                        Frame("_send_to_webhook", FALSE)),
                       result |-> "running"]
                 ELSE IF Top(stack).pc = "log_error"
                      THEN RaiseFrom(stack)
                      ELSE [stack |-> SetTopPc(stack, "log_error"),
                            result |-> "running"]
       IN /\ stack' = after.stack
          /\ dResult' = after.result
    /\ UNCHANGED <<notDisc, dm_enabled, forward_logs, posts, resends>>

InitDiscord ==
    /\ OneConfig
    /\ OrchIdle
    /\ LoginIdle
    /\ PageIdle
    /\ SessionFresh
    /\ DiffIdle
    /\ EarliestIdle
    /\ WorkIdle
    /\ dm_enabled \in BOOLEAN
    /\ forward_logs \in BOOLEAN
    /\ stack = <<>>
    /\ dResult = "idle"
    /\ posts = 0
    /\ resends = 0
    /\ DashboardIdle
    /\ OverviewIdle
    /\ LogIdle

NextDiscord ==
    \/ SendCall
    \/ Post
    \/ LogCall

SpecDiscord == InitDiscord /\ [][NextDiscord]_vars

\* without log forwarding a dispatch never raises, answers False whenever
\* its last post did not succeed, and posts twice at most
DispatchContainedWithoutForwarding ==
    ~forward_logs =>
        /\ dResult # "raised"
        /\ posts <= 2
        /\ resends <= 1
        /\ dResult = "True" => posts >= 1

\* C24: a dispatch never raises to its caller, whatever the webhook answers,
\* and the outermost call posts again at most once.
C24_DispatchNeverRaises ==
    /\ dResult # "raised"
    /\ resends <= 1

(***************************************************************************)
(* handler.get_reserved_lesson_date_time and get_booked_lesson_date_time   *)
(* (SpecDashboard)                                                         *)
(***************************************************************************)

notDash == <<orchVars, logVars, discVars, ovVars, loginVars, pageVars, diffVars, earlVars,
             workVars>>

\* the fifth cell of a row
LessonCells == {"3A PRACTICAL 5", "3A PT 1"}

\* determine_field_type: "PT" in lesson_name, over LessonCells
determine_field_type(lesson_name) ==
    IF lesson_name \in {"3A PT 1"} THEN "pt" ELSE "practical"

\* the third and fourth cell of a row: start and end, with seconds
TimeCells == {<<"09:00:00", "10:00:00">>, <<"11:00:00", "12:00:00">>}

\* text[:-3] on a time cell
DropSeconds(text) ==
    CASE text = "09:00:00" -> "09:00"
      [] text = "10:00:00" -> "10:00"
      [] text = "11:00:00" -> "11:00"
      [] text = "12:00:00" -> "12:00"

\* f"{td_cells[2].text[:-3]} - {td_cells[3].text[:-3]}"
TimeText(cells) ==
    CASE <<DropSeconds(cells[1]), DropSeconds(cells[2])>>
            = <<"09:00", "10:00">> -> "09:00 - 10:00"
      [] <<DropSeconds(cells[1]), DropSeconds(cells[2])>>
            = <<"11:00", "12:00">> -> "11:00 - 12:00"

\* a row with data cells of the reserved or the booked table
Rows == [lesson_name : LessonCells, date : Dates, times : TimeCells]

\* a table of the dashboard: it shows a session once
Tables ==
    {t \in UNION {[1..n -> Rows] : n \in 0..MaxRows} :
        \A i, j \in DOMAIN t : i # j => t[i] # t[j]}

\* the body of the loop over the rows: lesson_name is set, and the slot goes
\* into the dict the attribute holds - a new key, or an append to the list
\* under the key already there
AddRow(A, attribute, row) ==
    LET ft == determine_field_type(row.lesson_name)
        sessions == A[ft][attribute]
        time_text == TimeText(row.times)
        updated ==
            IF row.date \notin DOMAIN sessions
            THEN [d \in DOMAIN sessions \cup {row.date} |->
                    IF d = row.date THEN <<time_text>> ELSE sessions[d]]
            ELSE [sessions EXCEPT ![row.date] = Append(@, time_text)]
    IN  [A EXCEPT ![ft]["lesson_name"] = row.lesson_name,
                  ![ft][attribute] = updated]

RECURSIVE ReadRows(_, _, _)
\* for row in rows, in table order
ReadRows(A, attribute, table) ==
    IF table = <<>> THEN A
    ELSE AddRow(ReadRows(A, attribute, SubSeq(table, 1, Len(table) - 1)),
                attribute, table[Len(table)])

\* get_reserved_lesson_date_time (attribute reserved_sessions) and
\* get_booked_lesson_date_time (attribute booked_sessions)
ReadTable(op, attribute) ==
    /\ \E t \in Tables :
        /\ writes + Len(t) <= MaxWrites
        /\ attrs' = ReadRows(attrs, attribute, t)
        /\ rows' = t
        /\ writes' = writes + Len(t)
    /\ lastOp' = [op |-> op, field_type |-> "", dirty |-> FALSE]
    /\ UNCHANGED <<notDash, flags, notification_update_msg>>

GetReservedLessonDateTime ==
    ReadTable("get_reserved_lesson_date_time", "reserved_sessions")

GetBookedLessonDateTime ==
    ReadTable("get_booked_lesson_date_time", "booked_sessions")

NextDashboard ==
    \/ GetReservedLessonDateTime
    \/ GetBookedLessonDateTime
    \/ ResetState

SpecDashboard == InitSession /\ [][NextDashboard]_vars

\* the sessions of a field type that a table shows
Shown(table, attribute, field_type) ==
    ReadRows(InitialAttrs, attribute, table)[field_type][attribute]

\* the attribute a read fills
AttributeRead(op) ==
    IF op = "get_reserved_lesson_date_time" THEN "reserved_sessions"
    ELSE "booked_sessions"

ReadOps == {"get_reserved_lesson_date_time", "get_booked_lesson_date_time"}

\* a read into an empty collection leaves in it what the table shows
ReadIntoEmptyHoldsTable ==
    [][\A ft \in FieldTypes :
        (lastOp'.op \in ReadOps /\ rows' # <<>>
            /\ attrs[ft][AttributeRead(lastOp'.op)] = <<>>) =>
                attrs'[ft][AttributeRead(lastOp'.op)] =
                    Shown(rows', AttributeRead(lastOp'.op), ft)]_vars

\* C29: after a read of the reserved (booked) table, reserved_sessions
\* (booked_sessions) of every field type holds exactly what the table shows
\* for it.
C29_ReadReplacesWholesale ==
    lastOp.op \in ReadOps =>
        \A ft \in FieldTypes :
            attrs[ft][AttributeRead(lastOp.op)] =
                Shown(rows, AttributeRead(lastOp.op), ft)

\* C30: no slot collection of a field type holds a time-range label twice
\* under one date.
C30_NoDuplicateLabels ==
    \A ft \in FieldTypes :
        \A at \in {"available_sessions", "reserved_sessions",
                   "booked_sessions", "earlier_sessions",
                   "cached_earlier_sessions"} :
            \A d \in DOMAIN attrs[ft][at] :
                \A i, j \in DOMAIN attrs[ft][at][d] :
                    i # j => attrs[ft][at][d][i] # attrs[ft][at][d][j]

(***************************************************************************)
(* handler.open_booking_overview and check_logged_in (SpecOverview)        *)
(***************************************************************************)

notOverview == <<orchVars, logVars, discVars, dashVars, sessVars, diffVars, earlVars,
                 workVars, loginPc, max_login_attempts, current_attempt,
                 attempts, loginResult, call_depth, failures, relogins,
                 escalated>>

\* self.port in self.driver.current_url, as far as the digit groups of the
\* URL tell: the empty string is in every string
PortInUrl(p, url) ==
    \/ p = ""
    \/ \E i \in DOMAIN url.digits : url.digits[i] = p

\* open_booking_overview is called
OpenBookingOverviewCall ==
    /\ pagePc \in {"idle", "returned"}
    /\ pagePc' = "statement"
    /\ pageResult' = "none"
    /\ trail' = <<>>
    /\ UNCHANGED <<notOverview, logged_in, port, current_url>>

\* check_logged_in: self._open_index("NewPortal/Booking/StatementBooking.aspx");
\* driver.get raising leaves open_booking_overview with the exception
OpenStatementBooking ==
    /\ pagePc = "statement"
    /\ \E raises \in BOOLEAN :
        IF raises
        THEN /\ pagePc' = "returned"
             /\ pageResult' = "raised"
             /\ UNCHANGED <<trail, current_url>>
        ELSE /\ \E url \in Urls : current_url' = url
             /\ trail' = Append(trail, "StatementBooking")
             /\ pagePc' = "port_test"
             /\ UNCHANGED pageResult
    /\ UNCHANGED <<notOverview, logged_in, port>>

\* check_logged_in: if self.port not in self.driver.current_url
PortTest ==
    /\ pagePc = "port_test"
    /\ IF PortInUrl(port, current_url)
       THEN /\ pagePc' = "dashboard"
            /\ UNCHANGED trail
       ELSE /\ pagePc' = "logout"
            /\ trail' = Append(trail, "timed_out")
    /\ UNCHANGED <<notOverview, logged_in, port, current_url, pageResult>>

\* check_logged_in: self.account_logout()
TimedOutLogout ==
    /\ pagePc = "logout"
    /\ \E raises \in BOOLEAN :
        IF raises
        THEN /\ pagePc' = "returned"
             /\ pageResult' = "raised"
             /\ UNCHANGED <<trail, logged_in>>
        ELSE /\ logged_in' = FALSE
             /\ trail' = Append(trail, "account_logout")
             /\ pagePc' = "login"
             /\ UNCHANGED pageResult
    /\ UNCHANGED <<notOverview, port, current_url>>

\* TimedOutLogin giving up when the login fails
TimedOutLoginAborts ==
    /\ pagePc = "login"
    /\ \E ok \in BOOLEAN, p \in DigitGroups :
        /\ logged_in' = ok
        /\ port' = IF ok THEN p ELSE port
        /\ pagePc' = IF ok THEN "dashboard" ELSE "returned"
        /\ pageResult' = IF ok THEN pageResult ELSE "False"
    /\ trail' = Append(trail, "account_login")
    /\ UNCHANGED <<notOverview, current_url>>

\* check_logged_in: self.account_login() and time.sleep(0.5); what the login
\* returns is not looked at
TimedOutLogin ==
    /\ pagePc = "login"
    /\ \E ok \in BOOLEAN, p \in DigitGroups :
        /\ logged_in' = ok
        /\ port' = IF ok THEN p ELSE port
    /\ trail' = Append(trail, "account_login")
    /\ pagePc' = "dashboard"
    /\ UNCHANGED <<notOverview, current_url, pageResult>>

\* open_booking_overview: self._open_index("NewPortal/Booking/Dashboard.aspx")
\* and dismiss_alert
OpenDashboard ==
    /\ pagePc = "dashboard"
    /\ \E raises \in BOOLEAN :
        IF raises
        THEN /\ pageResult' = "raised"
             /\ UNCHANGED trail
        ELSE /\ pageResult' = "None"
             /\ trail' = Append(trail, "Dashboard")
    /\ pagePc' = "returned"
    /\ UNCHANGED <<notOverview, logged_in, port, current_url>>

\* a handler that is logged in, or one that never was (port is "")
InitOverview ==
    /\ OneConfig
    /\ OrchIdle
    /\ \/ logged_in = TRUE /\ port \in DigitGroups
       \/ logged_in = FALSE /\ port = ""
    /\ current_url = NoUrl
    /\ loginPc = "idle"
    /\ max_login_attempts = DefaultMaxLoginAttempts
    /\ current_attempt = 1
    /\ attempts = 0
    /\ loginResult = "none"
    /\ PageIdle
    /\ SessionFresh
    /\ DiffIdle
    /\ EarliestIdle
    /\ WorkIdle
    /\ DiscordIdle
    /\ DashboardIdle
    /\ OverviewIdle
    /\ LogIdle

NextOverview ==
    \/ OpenBookingOverviewCall
    \/ OpenStatementBooking
    \/ PortTest
    \/ TimedOutLogout
    \/ TimedOutLogin
    \/ OpenDashboard

SpecOverview == InitOverview /\ [][NextOverview]_vars

\* what a call does when the session has timed out and the driver does not
\* raise
RecoveryTrail == <<"StatementBooking", "timed_out", "account_logout",
                   "account_login", "Dashboard">>

IsPrefix(s, t) == Len(s) <= Len(t) /\ s = SubSeq(t, 1, Len(s))

\* C33: once check_logged_in has found the port missing from the URL, the
\* call logs out, then logs in, then opens the dashboard, in this order and
\* whatever the login returned; nothing but an exception of the driver ends
\* the call before the dashboard, and a session that is found alive is left
\* alone.
C33_TimeoutReauthenticates ==
    /\ [](IF \E i \in DOMAIN trail : trail[i] = "timed_out"
          THEN IsPrefix(trail, RecoveryTrail)
          ELSE IsPrefix(trail, <<"StatementBooking", "Dashboard">>))
    /\ []((pagePc = "returned" /\ pageResult # "raised") =>
            trail \in {RecoveryTrail, <<"StatementBooking", "Dashboard">>})
    /\ [][(pagePc = "port_test" /\ ~PortInUrl(port, current_url)) =>
            (pagePc' = "logout" /\ trail' = Append(trail, "timed_out"))]_vars
    /\ [][pagePc = "login" => pagePc' = "dashboard"]_vars

\* a call found the session timed out, logged out, failed to log in again
\* and went on to the dashboard
C33_Witness ==
    /\ pagePc = "returned"
    /\ pageResult = "None"
    /\ trail = RecoveryTrail
    /\ ~logged_in

====
